---- MODULE Spec2Model ----
(***************************************************************************)
(* Publishing orchestrator of the social-media backend                     *)
(* (src/routes/posting.js): the multi-destination route POST /multi, the   *)
(* single-destination routes POST /<platform>/:accountId and the four      *)
(* adapters postToTwitter, postToFacebook, postToLinkedIn, postToInstagram *)
(* as the routes drive them.                                               *)
(*                                                                         *)
(* Spec        one request to POST /multi: the handler validates the       *)
(*             platforms, starts one async callback per entry, awaits      *)
(*             Promise.all and answers.                                    *)
(* SpecDestinations  the same, every entry of platforms a destination.     *)
(* SpecSingle  one request to a single-destination route.                  *)
(* SpecInstagram  one invocation of postToInstagram, every call a step.    *)
(* FairInstagram  the same, every awaited call settling.                   *)
(* SpecLinkedIn   one invocation of postToLinkedIn, every call a step.     *)
(* SpecTwitter    one invocation of postToTwitter, every call a step.      *)
(* SpecFacebook   one invocation of postToFacebook, every call a step.     *)
(* SpecCloudinary one invocation of convertFilesToCloudinaryUrls.          *)
(* SpecErrors     a failed final publish call, from the adapter's catch to *)
(*                the result the route hands to the caller.                *)
(* SpecBudget     one accepted request, from its media to the number of    *)
(*                media references on the final publish call.              *)
(* SpecSessions   the session store of utils/tokens.js with the requests   *)
(*                GET /user/:sessionId and the hourly cleanup.             *)
(* FairSessions   the same, the clock and the cleanup timer going on.      *)
(* SpecPkce       pkceStore and the Twitter OAuth routes.                  *)
(* SpecRetry      one call of apiCallWithRetry, attempt by attempt.        *)
(* FairRetry      the same, every request settling and every timer firing. *)
(*                                                                         *)
(* An adapter invocation is a record that moves from await to await; every *)
(* step takes the outcome of the awaited call from the set of outcomes the *)
(* call can have.                                                          *)
(***************************************************************************)
EXTENDS Integers, Sequences, FiniteSets, TLC

VARIABLES
    req,        \* POST /multi: the request's platforms, content and media
    phase,      \* "received" | "awaiting" (at Promise.all) | "responded"
    tasks,      \* one invocation record per postPromises entry, in request order
    order,      \* indices of the settled callbacks, in completion order
    response,   \* what the handler sent, or NoResponse
    lookups,    \* number of SocialMediaAccount.findOne calls made
    uploads,    \* number of Cloudinary upload_stream calls made
    lateCalls,  \* 1 once a callback made a call after the response was sent
    sreq,       \* single route: the route, content and media of the request
    stask,      \* single route: the handler's invocation record
    sres,       \* single route: the responses sent, in order
    ig,         \* postToInstagram: one invocation of the adapter, call by call
    li,         \* postToLinkedIn: one invocation of the adapter, call by call
    tw,         \* postToTwitter: one invocation of the adapter, call by call
    fb,         \* postToFacebook: one invocation of the adapter, call by call
    cl,         \* convertFilesToCloudinaryUrls: one invocation, upload by upload
    er,         \* a failure of a final publish call on its way to the caller
    mb,         \* one accepted request, from its media to the final publish call
    ss,         \* utils/tokens.js sessions and the GET /user/:sessionId requests
    pk,         \* Twitter OAuth routes: pkceStore and the requests of the flow
    rt          \* one call of apiCallWithRetry, attempt by attempt

multiVars == <<req, phase, tasks, order, response, lookups, uploads, lateCalls>>
singleVars == <<sreq, stask, sres>>
adapterVars == <<ig, li, tw, fb, cl, er, mb, ss, pk, rt>>
vars == <<multiVars, singleVars, adapterVars>>

(***************************************************************************)
(* Bounds of the model.                                                    *)
(***************************************************************************)
MaxPlatforms == 2

(***************************************************************************)
(* JavaScript values and helpers.                                          *)
(***************************************************************************)
Absent == "<absent>"          \* the field is not a key of the object
Undefined == "<undefined>"    \* the field is present and undefined

Known == {"twitter", "facebook", "instagram", "linkedin"}

\* What a parsed platforms array may hold: the four identifiers, one in
\* another case, and one that names no destination.
PlatformValues == Known \cup {"Twitter", "tiktok"}

\* String.prototype.toLowerCase on the identifiers of the model.
ToLower(p) == IF p = "Twitter" THEN "twitter" ELSE p

RECURSIVE SeqsUpTo(_, _)
SeqsUpTo(S, n) ==
    IF n = 0 THEN {<<>>}
    ELSE LET shorter == SeqsUpTo(S, n - 1)
         IN shorter \cup {Append(s, x) : s \in {t \in shorter : Len(t) = n - 1}, x \in S}

Min(a, b) == IF a < b THEN a ELSE b
Max(a, b) == IF a > b THEN a ELSE b

\* Array.prototype.slice(0, end) on an array of length len: its length.
SliceLen(len, end) ==
    IF end >= 0 THEN Min(len, end) ELSE Max(len + end, 0)

(***************************************************************************)
(* Requests.                                                               *)
(***************************************************************************)

\* req.body.platforms after the JSON.parse of line 1413: an array, a value
\* that is not an array (undefined, an object, a number), or a string that
\* JSON.parse rejects.
PlatformInputs ==
    { [kind |-> "array", list |-> l] : l \in SeqsUpTo(PlatformValues, MaxPlatforms) }
    \cup { [kind |-> "notArray", list |-> <<>>], [kind |-> "badJson", list |-> <<>>] }

\* The content and media a request to POST /multi carries: nothing, text
\* only, text with one uploaded image file, or text with one media URL.
RequestShapes ==
    { [hasContent |-> FALSE, files |-> 0, urls |-> 0],
      [hasContent |-> TRUE, files |-> 0, urls |-> 0],
      [hasContent |-> TRUE, files |-> 1, urls |-> 0],
      [hasContent |-> TRUE, files |-> 0, urls |-> 1] }

\* The content and media a request to a single-destination route carries:
\* text or none, at most one uploaded image file, at most one media URL in
\* req.body.mediaUrls.
SingleShapes ==
    { [hasContent |-> c, files |-> f, urls |-> u] :
        c \in BOOLEAN, f \in {0, 1}, u \in {0, 1} }

(***************************************************************************)
(* An invocation: the account lookup, the adapter and the save, as one     *)
(* record that moves from await to await.                                  *)
(***************************************************************************)

NoEntry == [platform |-> Absent, success |-> FALSE, postId |-> Absent, error |-> Absent]

NewTask(p) ==
    [platform |-> p, pc |-> "lookup", leftFiles |-> 0, leftUrls |-> 0, got |-> 0,
     valid |-> <<>>, result |-> Absent, error |-> Absent, status |-> 0,
     entry |-> NoEntry, threw |-> "none", called |-> FALSE, account |-> Absent,
     given |-> -1, written |-> {}]

\* A failure after which the account record is saved all the same.
ThrowAndSave(t, step, msg, status) ==
    [t EXCEPT !.pc = "threw", !.threw = step, !.error = msg, !.status = status,
              !.leftFiles = 0, !.leftUrls = 0, !.got = 0, !.valid = <<>>,
              !.written = {"lastUsed", "updatedAt"}]

\* `throw new Error(msg)` / `throw httpError(msg, status)` at `step`: the
\* invocation stops there. err.status is 0 when the error carries none.
Throw(t, step, msg, status) ==
    [t EXCEPT !.pc = "threw", !.threw = step, !.error = msg, !.status = status,
              !.leftFiles = 0, !.leftUrls = 0, !.got = 0, !.valid = <<>>]

\* The fields of the account document that hold a destination's credentials.
Credentials ==
    {"accessToken", "refreshToken", "tokenExpiresAt", "pageId", "instagramAccountId",
     "linkedinUserId"}

\* What SocialMediaAccount.findOne can yield for a platform: no document, a
\* document lacking a field the adapter needs, a usable document, or a
\* database failure. The schema's enum admits no document of another platform.
FindOneOutcomes(lp) ==
    IF lp \in Known THEN {"null", "incomplete", "ok", "dbError"} ELSE {"null", "dbError"}

\* The body of the final publish call's response: it carries a post id, it
\* carries the payload object without an id, it carries nothing usable, or
\* the call failed (a non-2xx status, a timeout).
PublishResponses == {"id", "dataNoId", "empty", "httpError"}

Returned(postId) == [ok |-> TRUE, postId |-> postId, error |-> Absent, status |-> 200]
Thrown(msg, status) == [ok |-> FALSE, postId |-> Absent, error |-> msg, status |-> status]

\* postToTwitter after the tweet call: `if (response.data?.data)` returns the
\* success object with postId: response.data.data.id; otherwise 502; a
\* failed call is rethrown by the catch with its status or 500.
TwitterResult(resp) ==
    CASE resp = "id" -> Returned("id")
      [] resp = "dataNoId" -> Returned(Undefined)
      [] resp = "empty" -> Thrown("Invalid response from Twitter API", 502)
      [] OTHER -> Thrown("Failed to post to Twitter", 500)

\* postToFacebook: every branch returns only `if (response.data?.id)` and
\* falls through to `throw httpError('Invalid response from Facebook API', 502)`.
FacebookResult(resp) ==
    CASE resp = "id" -> Returned("id")
      [] resp \in {"dataNoId", "empty"} -> Thrown("Invalid response from Facebook API", 502)
      [] OTHER -> Thrown("Failed to post to Facebook", 500)

\* postToLinkedIn: `if (response.data?.id)` ... else throw; the catch rethrows
\* httpError(errorMessage, postError.response?.status || 500).
LinkedInResult(resp) ==
    CASE resp = "id" -> Returned("id")
      [] resp \in {"dataNoId", "empty"} ->
            Thrown("Invalid response from LinkedIn API - no post ID returned", 500)
      [] OTHER -> Thrown("Failed to post to LinkedIn", 500)

\* postToInstagram: `if (publishResponse.data?.id)` ... else throw; the catch
\* rethrows httpError(errorMessage, postError.response?.status || 500).
InstagramResult(resp) ==
    CASE resp = "id" -> Returned("id")
      [] resp \in {"dataNoId", "empty"} -> Thrown("Failed to publish Instagram post", 500)
      [] OTHER -> Thrown("Failed to post to Instagram", 500)

PublishResult(lp, resp) ==
    CASE lp = "twitter" -> TwitterResult(resp)
      [] lp = "facebook" -> FacebookResult(resp)
      [] lp = "linkedin" -> LinkedInResult(resp)
      [] OTHER -> InstagramResult(resp)

\* The adapters' guard on entry: `if (!content && <no media>) throw`.
NothingToPost(hasContent, nMedia) == ~hasContent /\ nMedia = 0

\* postToFacebook's choice of protocol from the media shape (image files and
\* image URLs): "text", "single" (one call), "album" (uploads, then the
\* parent post), or "none": no branch matches and the function throws
\* 'Invalid response from Facebook API' without a call.
FacebookPlan(files, urls) ==
    CASE files = 0 /\ urls = 0 -> "text"
      [] files = 1 /\ urls = 0 -> "single"
      [] files = 0 /\ urls = 1 -> "single"
      [] files > 1 \/ urls > 1 -> "album"
      [] OTHER -> "none"

\* postToInstagram after the HEAD validation of every URL: which branch the
\* kinds of the valid URLs select.
InstagramPlan(valid) ==
    LET nVideo == Cardinality({i \in DOMAIN valid : valid[i] = "video"})
        nImage == Cardinality({i \in DOMAIN valid : valid[i] = "image"})
    IN CASE Len(valid) = 0 -> "noValid"
         [] nVideo > 0 /\ nImage > 0 -> "mixed"
         [] nVideo > 1 -> "manyVideos"
         [] Len(valid) = 1 -> "single"
         [] Len(valid) <= 10 /\ nVideo = 0 -> "carousel"
         [] OTHER -> "tooMany"

\* postToTwitter({imageFiles: f files, mediaUrls: u URLs}) to its first await.
EnterTwitter(t, hasContent, f, u) ==
    IF NothingToPost(hasContent, f + u)
    THEN Throw(t, "adapter", "Content or media required", 400)
    ELSE IF Min(f, 4) > 0
    THEN [t EXCEPT !.pc = "media", !.leftFiles = Min(f, 4), !.leftUrls = u]
    ELSE IF Min(u, 4) > 0
    THEN [t EXCEPT !.pc = "media", !.leftUrls = Min(u, 4)]
    ELSE [t EXCEPT !.pc = "publish"]

\* postToLinkedIn({imageFiles: f files, mediaUrls: u URLs}) to its first await.
EnterLinkedIn(t, hasContent, f, u) ==
    IF NothingToPost(hasContent, f + u)
    THEN Throw(t, "adapter", "Either content or media are required for LinkedIn posts", 0)
    ELSE IF f + u > 0
    THEN [t EXCEPT !.pc = "media", !.leftFiles = f, !.leftUrls = u]
    ELSE [t EXCEPT !.pc = "publish"]

\* postToFacebook({imageFiles: f files, mediaUrls: u URLs}) to its first await.
EnterFacebook(t, hasContent, f, u) ==
    IF NothingToPost(hasContent, f + u)
    THEN Throw(t, "adapter", "Content or media required", 400)
    ELSE CASE FacebookPlan(f, u) \in {"text", "single"} -> [t EXCEPT !.pc = "publish"]
           [] FacebookPlan(f, u) = "album" ->
                [t EXCEPT !.pc = "media", !.leftFiles = f, !.leftUrls = u]
           [] OTHER -> Throw(t, "adapter", "Invalid response from Facebook API", 502)

\* postToInstagram without its test of an empty media list.
EnterInstagramNoMediaCheck(t, hasContent, nAll) ==
    IF NothingToPost(hasContent, nAll)
    THEN Throw([t EXCEPT !.given = nAll], "adapter",
               "Content or media are required for Instagram posts", 0)
    ELSE [t EXCEPT !.pc = IF nAll = 0 THEN "container" ELSE "head",
                   !.leftUrls = nAll, !.leftFiles = 0, !.got = 0, !.given = nAll]

\* postToInstagram({mediaUrls: nAll URLs}) to its first await; `given` keeps
\* mediaUrls.length.
EnterInstagram(t, hasContent, nAll) ==
    IF NothingToPost(hasContent, nAll)
    THEN Throw([t EXCEPT !.given = nAll], "adapter",
               "Content or media are required for Instagram posts", 0)
    ELSE IF nAll = 0
    THEN Throw([t EXCEPT !.given = nAll], "adapter",
               "Instagram requires at least one image or video", 500)
    ELSE [t EXCEPT !.pc = "head", !.leftUrls = nAll, !.leftFiles = 0, !.got = 0,
                   !.given = nAll]

(***************************************************************************)
(* The adapters' steps: the invocation after the awaited call settled.     *)
(***************************************************************************)

\* One media item of postToTwitter, postToLinkedIn or postToFacebook's album
\* was uploaded or failed (files first, then URLs); a failed upload is
\* logged and the loop goes on. After the last item the adapter is at its
\* publish call; the album without any photo id throws.
AfterMedia(t, ok) ==
    LET lp == ToLower(t.platform)
        got == IF ok THEN t.got + 1 ELSE t.got
        onFile == t.leftFiles > 0
        lf == IF onFile THEN t.leftFiles - 1 ELSE 0
        lu0 == IF onFile THEN t.leftUrls ELSE t.leftUrls - 1
        \* postToTwitter: remainingSlots = maxMedia - processedCount
        lu == IF lp = "twitter" /\ onFile /\ lf = 0 THEN Min(lu0, 4 - got) ELSE lu0
        t1 == [t EXCEPT !.got = got, !.leftFiles = lf, !.leftUrls = lu, !.called = TRUE]
    IN IF lf + lu > 0 THEN t1
       ELSE IF lp = "facebook" /\ got = 0
       THEN Throw(t1, "adapter", "Invalid response from Facebook API", 502)
       ELSE [t1 EXCEPT !.pc = "publish", !.got = 0]

\* postToInstagram's HEAD request for one media URL settled, and after the
\* last one the checks on the kinds found.
AfterHead(t, kind) ==
    LET valid == IF kind = "bad" THEN t.valid ELSE Append(t.valid, kind)
        t1 == [t EXCEPT !.valid = valid, !.leftUrls = t.leftUrls - 1]
        plan == InstagramPlan(valid)
    IN CASE t1.leftUrls > 0 -> t1
         [] plan = "single" -> [t1 EXCEPT !.pc = "container", !.valid = <<>>]
         [] plan = "carousel" ->
               [t1 EXCEPT !.pc = "child", !.leftUrls = Len(valid), !.got = 0,
                          !.valid = <<>>]
         [] OTHER -> Throw(t1, "adapter", plan, 500)

\* postToInstagram's container call of a single-item post settled.
AfterContainer(t, r) ==
    IF r = "id" THEN [t EXCEPT !.pc = "poll", !.called = TRUE]
    ELSE Throw([t EXCEPT !.called = TRUE], "adapter",
               "Failed to create Instagram media container", 500)

\* postToInstagram's status loop, as a whole: it ends with isReady set, or
\* with the last check reporting the container still in progress.
AfterPoll(t, out) ==
    IF out = "ready" THEN [t EXCEPT !.pc = "publish"]
    ELSE Throw(t, "adapter", "Media processing timed out", 500)

\* postToInstagram's call for one child container of a carousel settled; a
\* failure is logged and the loop goes on.
AfterChild(t, ok) ==
    LET t1 == [t EXCEPT !.got = IF ok THEN t.got + 1 ELSE t.got,
                        !.leftUrls = t.leftUrls - 1, !.called = TRUE]
    IN IF t1.leftUrls > 0 THEN t1
       ELSE IF t1.got = 0
       THEN Throw(t1, "adapter", "Failed to create any Instagram media containers", 500)
       ELSE [t1 EXCEPT !.pc = "parent", !.got = 0]

\* postToInstagram's call for the carousel container settled.
AfterParent(t, r) ==
    IF r = "id" THEN [t EXCEPT !.pc = "publish"]
    ELSE Throw(t, "adapter", "Failed to create Instagram carousel container", 500)

\* The adapter's final publish call settled: the adapter returns its success
\* object and the route goes on to account.save(), or the adapter throws.
AfterPublish(t, resp) ==
    LET r == PublishResult(ToLower(t.platform), resp)
    IN IF r.ok THEN [t EXCEPT !.pc = "save", !.result = r.postId, !.called = TRUE]
       ELSE Throw([t EXCEPT !.called = TRUE], "publish", r.error, r.status)

\* `account.lastUsed = new Date(); await account.save()` settled: a save
\* that succeeded wrote the modified path lastUsed and, the schema having
\* timestamps, updatedAt to the stored record; `written` keeps the paths
\* written.
AfterSave(t, ok) ==
    IF ok THEN [t EXCEPT !.pc = "returned", !.written = {"lastUsed", "updatedAt"}]
    ELSE Throw(t, "save", "save failed", 0)

(***************************************************************************)
(* POST /multi: the callback of parsedPlatforms.map, one per entry.        *)
(***************************************************************************)

\* `return { platform, success: true, result }`: result.postId is kept.
SuccessEntry(p, postId) ==
    [platform |-> p, success |-> TRUE, postId |-> postId, error |-> Absent]

\* `return { platform, success: false, error: err.message }`.
FailedEntry(p, msg) ==
    [platform |-> p, success |-> FALSE, postId |-> Absent, error |-> msg]

\* The callback without its try/catch: a failure rejects its promise.
Rejects(t) == [t EXCEPT !.pc = "rejected"]

\* The catch of the callback: the failure becomes the callback's value.
Catch(t) == [t EXCEPT !.pc = "done", !.entry = FailedEntry(t.platform, t.error)]

\* The callback's return after account.save().
Return(t) == [t EXCEPT !.pc = "done", !.entry = SuccessEntry(t.platform, t.result)]

\* The callback around a step of its body.
Settle(t) ==
    CASE t.pc = "threw" -> Catch(t)
      [] t.pc = "returned" -> Return(t)
      [] OTHER -> t

\* The switch of the callback after a usable account was found: the
\* adapter is called with the media sliced for it and runs to its first
\* await. For Instagram the files go to Cloudinary first.
StartAdapter(t, lp, hasContent, files, urls) ==
    CASE lp = "twitter" ->
            EnterTwitter(t, hasContent, SliceLen(files, 4), SliceLen(urls, 4 - files))
      [] lp = "facebook" -> EnterFacebook(t, hasContent, files, urls)
      [] lp = "linkedin" ->
            EnterLinkedIn(t, hasContent, SliceLen(files, 9), SliceLen(urls, 9 - files))
      [] lp = "instagram" ->
            IF files > 0
            THEN [t EXCEPT !.pc = "cloudinary", !.leftFiles = files, !.leftUrls = urls]
            ELSE EnterInstagram(t, hasContent, SliceLen(SliceLen(urls, 10), 10))
      [] OTHER -> Throw(t, "switch", "posting not implemented yet", 0)

\* The callback without its `if (!account) throw`.
AfterLookupNoAccountCheck(t, out, hasContent, files, urls) ==
    CASE out = "dbError" -> Throw(t, "lookup", "database error", 0)
      [] out = "incomplete" -> Throw(t, "credentials", "credentials not found", 0)
      [] OTHER -> StartAdapter(t, ToLower(t.platform), hasContent, files, urls)

\* The callback after findOne settled, up to its next await.
AfterLookup(t, out, hasContent, files, urls) ==
    CASE out = "dbError" -> Throw(t, "lookup", "database error", 0)
      [] out = "null" -> Throw(t, "lookup", "account not found or not connected", 0)
      [] out = "incomplete" -> Throw(t, "credentials", "credentials not found", 0)
      [] OTHER -> StartAdapter(t, ToLower(t.platform), hasContent, files, urls)

\* case 'instagram': one file was handed to Cloudinary by
\* convertFilesToCloudinaryUrls (a failed upload is dropped); after the last
\* file the media URLs are appended and postToInstagram is called.
AfterCloudinaryMulti(t, ok, hasContent) ==
    LET got == IF ok THEN t.got + 1 ELSE t.got
        t1 == [t EXCEPT !.got = got, !.leftFiles = t.leftFiles - 1]
        nAll == SliceLen(got + SliceLen(t.leftUrls, 10 - got), 10)
    IN IF t1.leftFiles > 0 THEN t1
       ELSE EnterInstagram(t1, hasContent, nAll)

(***************************************************************************)
(* POST /multi: the handler.                                               *)
(***************************************************************************)

NoResponse ==
    [status |-> 0, success |-> FALSE, error |-> Absent, totalPlatforms |-> 0,
     successful |-> 0, failed |-> 0, results |-> <<>>]

\* The validation without its length test.
ValidPlatformsIgnoresLength(pl) == pl.kind = "array"

\* `!Array.isArray(parsedPlatforms) || parsedPlatforms.length === 0` negated.
ValidPlatforms(pl) == pl.kind = "array" /\ Len(pl.list) > 0

Reject400(msg) ==
    [status |-> 400, success |-> FALSE, error |-> msg, totalPlatforms |-> 0,
     successful |-> 0, failed |-> 0, results |-> <<>>]

Reject500(msg) ==
    [status |-> 500, success |-> FALSE, error |-> msg, totalPlatforms |-> 0,
     successful |-> 0, failed |-> 0, results |-> <<>>]

\* `results.filter(r => r.success)`
Successful(results) == SelectSeq(results, LAMBDA r : r.success)

\* A filter on the post id instead of the success flag.
FailedNoPostId(results) == SelectSeq(results, LAMBDA r : r.postId # "id")

\* `results.filter(r => !r.success)`
Failed(results) == SelectSeq(results, LAMBDA r : ~r.success)

\* A report that succeeds only when every destination did.
BuildReportAllOrNothing(results, n) ==
    [status |-> IF Len(Successful(results)) = n THEN 200 ELSE 500,
     success |-> Len(Successful(results)) = n,
     error |-> Absent,
     totalPlatforms |-> n,
     successful |-> Len(Successful(results)),
     failed |-> Len(Failed(results)),
     results |-> results]

\* The body of res.json at lines 1513-1522; res.json answers with status 200.
BuildReport(results, n) ==
    [status |-> 200,
     success |-> Len(Successful(results)) > 0,
     error |-> Absent,
     totalPlatforms |-> n,
     successful |-> Len(Successful(results)),
     failed |-> Len(Failed(results)),
     results |-> results]

\* A race: settled as soon as any promise is.
PromiseAllSettledOnFirst(ts) ==
    \E i \in DOMAIN ts : ts[i].pc \in {"done", "rejected"}

\* Promise.all(postPromises): it settles once every promise is fulfilled, or
\* as soon as one is rejected.
PromiseAllSettled(ts) ==
    \/ \A i \in DOMAIN ts : ts[i].pc = "done"
    \/ \E i \in DOMAIN ts : ts[i].pc = "rejected"

PromiseAllRejected(ts) == \E i \in DOMAIN ts : ts[i].pc = "rejected"

\* The promises' values in the order in which they settled.
PromiseAllValueByCompletion(ts, ord) ==
    [k \in 1..Len(ord) |-> ts[ord[k]].entry]

\* No request is followed from its media to the publish call, the session
\* store and pkceStore are not followed, and apiCallWithRetry is not called.
ServicesIdle ==
    /\ mb = [pc |-> "idle"]
    /\ ss = [pc |-> "idle"]
    /\ pk = [pc |-> "idle"]
    /\ rt = [pc |-> "idle"]


\* The fulfilment value of Promise.all: the promises' values in the order of
\* the array it was given.
PromiseAllValue(ts, ord) ==
    [i \in DOMAIN ts |-> ts[i].entry]

MultiIdle ==
    /\ req = [platforms |-> [kind |-> "notArray", list |-> <<>>],
              body |-> [hasContent |-> FALSE, files |-> 0, urls |-> 0]]
    /\ phase = "idle"
    /\ tasks = <<>>
    /\ order = <<>>
    /\ response = NoResponse
    /\ lookups = 0
    /\ uploads = 0
    /\ lateCalls = 0

SingleIdle ==
    /\ sreq = [route |-> Absent, body |-> [hasContent |-> FALSE, files |-> 0, urls |-> 0]]
    /\ stask = NewTask(Absent)
    /\ sres = <<>>

\* No invocation of postToInstagram or postToLinkedIn is followed call by call.
InstagramIdle == ig = [pc |-> "idle"]

LinkedInIdle == li = [pc |-> "idle"]

\* Nor one of postToTwitter, postToFacebook or convertFilesToCloudinaryUrls,
\* and no failure is followed through the catch blocks.
OthersIdle ==
    /\ tw = [pc |-> "idle"]
    /\ fb = [pc |-> "idle"]
    /\ cl = [pc |-> "idle"]
    /\ er = [pc |-> "idle"]
    /\ ServicesIdle

\* Nothing of routes/posting.js is followed.
PostingIdle ==
    /\ MultiIdle
    /\ SingleIdle
    /\ InstagramIdle
    /\ LinkedInIdle
    /\ tw = [pc |-> "idle"]
    /\ fb = [pc |-> "idle"]
    /\ cl = [pc |-> "idle"]
    /\ er = [pc |-> "idle"]

\* A request to POST /multi has passed multer and authenticateUser.
Init ==
    /\ req \in [platforms : PlatformInputs, body : RequestShapes]
    /\ phase = "received"
    /\ tasks = <<>>
    /\ order = <<>>
    /\ response = NoResponse
    /\ lookups = 0
    /\ uploads = 0
    /\ lateCalls = 0
    /\ SingleIdle
    /\ InstagramIdle
    /\ LinkedInIdle
    /\ OthersIdle

\* The indices among 1..n whose callback is settled, in index order.
RECURSIVE SettledUpTo(_, _)
SettledUpTo(ts, n) ==
    IF n = 0 THEN <<>>
    ELSE IF ts[n].pc \in {"done", "rejected"}
         THEN Append(SettledUpTo(ts, n - 1), n)
         ELSE SettledUpTo(ts, n - 1)

\* The handler from its start to `await Promise.all(postPromises)`: the
\* parse and validation of platforms, then map, which runs every callback to
\* its first await, the findOne call.
Dispatch ==
    /\ phase = "received"
    /\ IF req.platforms.kind = "badJson"
       THEN /\ response' = Reject400("Invalid JSON data in request")
            /\ phase' = "responded"
            /\ UNCHANGED <<tasks, order, lookups>>
       ELSE IF ~ValidPlatforms(req.platforms)
       THEN /\ response' = Reject400("Platforms array required")
            /\ phase' = "responded"
            /\ UNCHANGED <<tasks, order, lookups>>
       ELSE LET started == [i \in DOMAIN req.platforms.list |->
                                Settle(NewTask(req.platforms.list[i]))]
            IN /\ tasks' = started
               /\ order' = SettledUpTo(started, Len(started))
               /\ lookups' = Cardinality({i \in DOMAIN started : started[i].pc = "lookup"})
               /\ phase' = "awaiting"
               /\ UNCHANGED response
    /\ UNCHANGED <<req, uploads, lateCalls, singleVars, adapterVars>>

\* The callbacks run one after the other (a loop that awaits each callback
\* where the handler uses map): callback i goes on only when every callback
\* before it has settled.
StepInTurn(i, t2) ==
    /\ \A j \in 1..(i - 1) : tasks[j].pc \in {"done", "rejected"}
    /\ tasks' = [tasks EXCEPT ![i] = Settle(t2)]
    /\ order' = IF Settle(t2).pc \in {"done", "rejected"} THEN Append(order, i) ELSE order
    /\ lateCalls' = IF phase = "responded" THEN 1 ELSE lateCalls
    /\ UNCHANGED <<req, phase, response, singleVars, adapterVars>>

\* Callback i made a call and, when it settled, ran on to t2.
Step(i, t2) ==
    /\ tasks' = [tasks EXCEPT ![i] = Settle(t2)]
    /\ order' = IF Settle(t2).pc \in {"done", "rejected"} THEN Append(order, i) ELSE order
    /\ lateCalls' = IF phase = "responded" THEN 1 ELSE lateCalls
    /\ UNCHANGED <<req, phase, response, singleVars, adapterVars>>

LookupSettles(i) ==
    /\ tasks[i].pc = "lookup"
    /\ \E out \in FindOneOutcomes(ToLower(tasks[i].platform)) :
          Step(i, AfterLookup([tasks[i] EXCEPT !.account = out], out,
                              req.body.hasContent, req.body.files, req.body.urls))
    /\ UNCHANGED <<lookups, uploads>>

CloudinaryStep(i) ==
    /\ tasks[i].pc = "cloudinary"
    /\ uploads' = uploads + 1
    /\ \E ok \in BOOLEAN : Step(i, AfterCloudinaryMulti(tasks[i], ok, req.body.hasContent))
    /\ UNCHANGED lookups

MediaStep(i) ==
    /\ tasks[i].pc = "media"
    /\ \E ok \in BOOLEAN : Step(i, AfterMedia(tasks[i], ok))
    /\ UNCHANGED <<lookups, uploads>>

HeadStep(i) ==
    /\ tasks[i].pc = "head"
    /\ \E kind \in {"image", "video", "bad"} : Step(i, AfterHead(tasks[i], kind))
    /\ UNCHANGED <<lookups, uploads>>

ContainerStep(i) ==
    /\ tasks[i].pc = "container"
    /\ \E r \in {"id", "empty", "httpError"} : Step(i, AfterContainer(tasks[i], r))
    /\ UNCHANGED <<lookups, uploads>>

PollLoop(i) ==
    /\ tasks[i].pc = "poll"
    /\ \E out \in {"ready", "timeout"} : Step(i, AfterPoll(tasks[i], out))
    /\ UNCHANGED <<lookups, uploads>>

Publish(i) ==
    /\ tasks[i].pc = "publish"
    /\ \E resp \in PublishResponses : Step(i, AfterPublish(tasks[i], resp))
    /\ UNCHANGED <<lookups, uploads>>

Save(i) ==
    /\ tasks[i].pc = "save"
    /\ \E ok \in BOOLEAN : Step(i, AfterSave(tasks[i], ok))
    /\ UNCHANGED <<lookups, uploads>>

\* One callback of postPromises from the call it awaits to its next await
\* or its end: every record it can reach, one for each response of the call.
\* The callback reads its own locals (t), the request (body) and the
\* response, and nothing of another callback.
CallbackNext(t, body) ==
    LET after ==
          CASE t.pc = "lookup" ->
                 {AfterLookup([t EXCEPT !.account = out], out,
                              body.hasContent, body.files, body.urls) :
                     out \in FindOneOutcomes(ToLower(t.platform))}
            [] t.pc = "cloudinary" ->
                 {AfterCloudinaryMulti(t, ok, body.hasContent) : ok \in BOOLEAN}
            [] t.pc = "media" -> {AfterMedia(t, ok) : ok \in BOOLEAN}
            [] t.pc = "head" -> {AfterHead(t, kind) : kind \in {"image", "video", "bad"}}
            [] t.pc = "container" ->
                 {AfterContainer(t, r) : r \in {"id", "empty", "httpError"}}
            [] t.pc = "poll" -> {AfterPoll(t, out) : out \in {"ready", "timeout"}}
            [] t.pc = "publish" -> {AfterPublish(t, resp) : resp \in PublishResponses}
            [] t.pc = "save" -> {AfterSave(t, ok) : ok \in BOOLEAN}
            [] OTHER -> {}
    IN {Settle(t2) : t2 \in after}

\* Some step of callback i.
CallbackStep(i) ==
    \/ LookupSettles(i) \/ CloudinaryStep(i) \/ MediaStep(i) \/ HeadStep(i)
    \/ ContainerStep(i) \/ PollLoop(i) \/ Publish(i) \/ Save(i)

\* `await Promise.all(postPromises)` settles and the handler answers: the
\* report, or the 500 of its catch.
Respond ==
    /\ phase = "awaiting"
    /\ PromiseAllSettled(tasks)
    /\ response' = IF PromiseAllRejected(tasks)
                   THEN Reject500("Failed to process multi-platform posting")
                   ELSE BuildReport(PromiseAllValue(tasks, order), Len(req.platforms.list))
    /\ phase' = "responded"
    /\ UNCHANGED <<req, tasks, order, lookups, uploads, lateCalls, singleVars, adapterVars>>

Next ==
    \/ Dispatch
    \/ \E i \in DOMAIN tasks : LookupSettles(i)
    \/ \E i \in DOMAIN tasks : CloudinaryStep(i)
    \/ \E i \in DOMAIN tasks : MediaStep(i)
    \/ \E i \in DOMAIN tasks : HeadStep(i)
    \/ \E i \in DOMAIN tasks : ContainerStep(i)
    \/ \E i \in DOMAIN tasks : PollLoop(i)
    \/ \E i \in DOMAIN tasks : Publish(i)
    \/ \E i \in DOMAIN tasks : Save(i)
    \/ Respond

Spec == Init /\ [][Next]_vars

\* A request to POST /multi whose platforms parse to an array of the four
\* destinations, in any number, order and repetition.
InitDestinations ==
    /\ Init
    /\ req.platforms.kind = "array"
    /\ \A i \in DOMAIN req.platforms.list : req.platforms.list[i] \in Known

SpecDestinations == InitDestinations /\ [][Next]_vars

(***************************************************************************)
(* POST /twitter/:accountId, /facebook/:accountId, /linkedin/:accountId,   *)
(* /instagram/:accountId: the single-destination handlers.                 *)
(***************************************************************************)

\* `return res.status(status).json({ success: false, platform, error })`
Reply(t, status, msg) ==
    [t EXCEPT !.pc = "replied", !.status = status, !.error = msg,
              !.leftFiles = 0, !.leftUrls = 0, !.got = 0]

\* The handler calls its adapter: Instagram's route first adds
\* req.body.mediaUrls to the Cloudinary URLs and checks the count; the other
\* three pass the uploaded files and the Cloudinary URLs of those files.
SEnterAdapter(t, route, body, cloud) ==
    CASE route = "instagram" ->
            IF cloud + body.urls = 0
            THEN Reply(t, 400, "At least one image or video is required for Instagram posts")
            ELSE IF cloud + body.urls > 10
            THEN Reply(t, 400, "Instagram supports maximum 10 images in a carousel or 1 video per post")
            ELSE EnterInstagram(t, body.hasContent, cloud + body.urls)
      [] route = "twitter" -> EnterTwitter(t, body.hasContent, body.files, cloud)
      [] route = "facebook" -> EnterFacebook(t, body.hasContent, body.files, cloud)
      [] OTHER -> EnterLinkedIn(t, body.hasContent, body.files, cloud)

\* The handler after findOne settled, up to its next await.
SAfterLookup(t, out, route, body) ==
    CASE out = "dbError" -> Throw(t, "lookup", "database error", 0)
      [] out = "null" -> Reply(t, 404, "account not found or not connected")
      [] out = "incomplete" -> Reply(t, 400, "account not properly configured for posting")
      [] OTHER ->
            IF body.files > 0
            THEN [t EXCEPT !.pc = "cloudinary", !.leftFiles = body.files]
            ELSE SEnterAdapter(t, route, body, 0)

\* convertFilesToCloudinaryUrls handed one file to Cloudinary (a failed
\* upload is dropped); after the last file the handler calls its adapter.
SAfterCloudinary(t, ok, route, body) ==
    LET got == IF ok THEN t.got + 1 ELSE t.got
        t1 == [t EXCEPT !.got = got, !.leftFiles = t.leftFiles - 1]
    IN IF t1.leftFiles > 0 THEN t1
       ELSE SEnterAdapter([t1 EXCEPT !.got = 0], route, body, got)

SFailure(status, msg) ==
    [status |-> status, success |-> FALSE, postId |-> Absent, error |-> msg]

\* The handler without its try/catch: the failure leaves the handler and
\* nothing is sent.
SCatchMissing(t) == <<>>

\* The catch of the handler: what it sends for the failure it caught, with
\* status `error.status || error.response?.status || 500`.
SCatch(t) == <<SFailure(IF t.status = 0 THEN 500 ELSE t.status, t.error)>>

\* What the handler sends when a step of its body ends in t: nothing while
\* it awaits the next call, else its early reply, its catch's reply, or
\* res.json(result) with the adapter's success object.
SAnswer(t) ==
    CASE t.pc = "threw" -> SCatch(t)
      [] t.pc = "replied" -> <<SFailure(t.status, t.error)>>
      [] t.pc = "returned" ->
            <<[status |-> 200, success |-> TRUE, postId |-> t.result, error |-> Absent]>>
      [] OTHER -> <<>>

SEnded(t) == t.pc \in {"threw", "replied", "returned"}

\* A request to a single-destination route has passed multer and
\* authenticateUser, and the handler awaits findOne.
InitSingle ==
    /\ MultiIdle
    /\ sreq \in [route : Known, body : SingleShapes]
    /\ stask = NewTask(sreq.route)
    /\ sres = <<>>
    /\ InstagramIdle
    /\ LinkedInIdle
    /\ OthersIdle

\* The handler made a call and, when it settled, ran on to t2.
SStep(t2) ==
    /\ stask' = IF SEnded(t2) THEN [t2 EXCEPT !.pc = "done"] ELSE t2
    /\ sres' = sres \o SAnswer(t2)
    /\ UNCHANGED <<sreq, multiVars, adapterVars>>

SLookup ==
    /\ stask.pc = "lookup"
    /\ \E out \in FindOneOutcomes(sreq.route) :
          SStep(SAfterLookup([stask EXCEPT !.account = out], out, sreq.route, sreq.body))

SCloudinary ==
    /\ stask.pc = "cloudinary"
    /\ \E ok \in BOOLEAN : SStep(SAfterCloudinary(stask, ok, sreq.route, sreq.body))

SMedia ==
    /\ stask.pc = "media"
    /\ \E ok \in BOOLEAN : SStep(AfterMedia(stask, ok))

SHead ==
    /\ stask.pc = "head"
    /\ \E kind \in {"image", "video", "bad"} : SStep(AfterHead(stask, kind))

SContainer ==
    /\ stask.pc = "container"
    /\ \E r \in {"id", "empty", "httpError"} : SStep(AfterContainer(stask, r))

SPoll ==
    /\ stask.pc = "poll"
    /\ \E out \in {"ready", "timeout"} : SStep(AfterPoll(stask, out))

SChild ==
    /\ stask.pc = "child"
    /\ \E ok \in BOOLEAN : SStep(AfterChild(stask, ok))

SParent ==
    /\ stask.pc = "parent"
    /\ \E r \in {"id", "empty", "httpError"} : SStep(AfterParent(stask, r))

SPublish ==
    /\ stask.pc = "publish"
    /\ \E resp \in PublishResponses : SStep(AfterPublish(stask, resp))

SSave ==
    /\ stask.pc = "save"
    /\ \E ok \in BOOLEAN : SStep(AfterSave(stask, ok))

NextSingle ==
    \/ SLookup
    \/ SCloudinary
    \/ SMedia
    \/ SHead
    \/ SContainer
    \/ SPoll
    \/ SChild
    \/ SParent
    \/ SPublish
    \/ SSave

SpecSingle == InitSingle /\ [][NextSingle]_vars

(***************************************************************************)
(* postToInstagram, call by call. A container, a child or the carousel is  *)
(* named by what it was made of: the id of the child made from mediaUrls[u]*)
(* is u. childResults keeps what each child call was answered.             *)
(***************************************************************************)

\* mediaUrls.length in the invocations followed call by call.
MaxMedia == 3

\* `const maxAttempts = 30`
maxAttempts == 30

StatusOutcomes == {"FINISHED", "ERROR", "IN_PROGRESS", "callFailed"}

IgTypes(g) == {g.validUrls[k].type : k \in DOMAIN g.validUrls}

\* A throw inside the adapter's try reaches its catch, which rethrows
\* httpError(message, postError.response?.status || 500).
IgThrow(g, msg) == [g EXCEPT !.pc = "threw", !.error = msg]

\* postToInstagram({content, mediaUrls}) with n media URLs up to its first
\* await, the HEAD request for the first URL.
IgStart(hasContent, n) ==
    LET g == [pc |-> "head", hasContent |-> hasContent, n |-> n, next |-> 1,
              validUrls |-> <<>>, headCalls |-> 0, containerCalls |-> 0,
              childCalls |-> <<>>, childResults |-> <<>>, containerIds |-> <<>>,
              carouselCalls |-> 0, children |-> <<>>, carouselId |-> FALSE,
              attempts |-> 0, isReady |-> FALSE, lastStatus |-> "none",
              sawError |-> FALSE, published |-> "none", error |-> Absent]
    IN IF NothingToPost(hasContent, n)
       THEN IgThrow(g, "Content or media are required for Instagram posts")
       ELSE IF n = 0
       THEN IgThrow(g, "Instagram requires at least one image or video")
       ELSE [g EXCEPT !.headCalls = 1]

\* `attempts++`
NextAttemptStuck(a) == a

NextAttempt(a) == a + 1

\* `while (!isReady && attempts < maxAttempts)`
LoopGoesOn(isReady, attempts) == ~isReady /\ attempts < maxAttempts

\* The loop's test and what follows it: the wait and the next status call,
\* or after the loop the timeout or the publish call for the container.
IgLoop(g) ==
    IF LoopGoesOn(g.isReady, g.attempts)
    THEN [g EXCEPT !.pc = "status", !.attempts = NextAttempt(g.attempts)]
    ELSE IF ~g.isReady
    THEN IgThrow(g, "Media processing timed out")
    ELSE [g EXCEPT !.pc = "publish", !.published = "container"]

\* isReady after one status check: FINISHED sets it; a check that raised
\* inside the try (the status call failed, or ERROR was thrown there) sets it
\* on the last attempt only.
ReadyAfterDegraded(out, attempts) ==
    out = "FINISHED" \/ attempts = maxAttempts

ReadyAfter(out, attempts) ==
    \/ out = "FINISHED"
    \/ out \in {"ERROR", "callFailed"} /\ attempts = maxAttempts

\* One status check settled.
IgAfterStatus(g, out) ==
    IgLoop([g EXCEPT !.isReady = ReadyAfter(out, g.attempts),
                     !.lastStatus = out,
                     !.sawError = g.sawError \/ out = "ERROR"])

\* The single-item branch without its status loop.
IgAfterContainerNoPoll(g, r) ==
    IF r = "id" THEN [g EXCEPT !.pc = "publish", !.published = "container"]
    ELSE IgThrow(g, "Failed to create Instagram media container")

\* The container call of the single-item branch settled.
IgAfterContainer(g, r) ==
    IF r = "id" THEN IgLoop(g)
    ELSE IgThrow(g, "Failed to create Instagram media container")

\* After the checks on the kinds: the branch taken and its first call.
IgBranch(g) ==
    IF Len(g.validUrls) = 1
    THEN [g EXCEPT !.pc = "container", !.containerCalls = 1]
    ELSE IF Len(g.validUrls) <= 10 /\ "video" \notin IgTypes(g)
    THEN [g EXCEPT !.pc = "child", !.next = 1,
                   !.childCalls = <<g.validUrls[1].url>>]
    ELSE IgThrow(g, "Instagram supports maximum 10 images in a carousel, or 1 video per post")

\* The checks on the kinds without the two on videos.
IgKindChecksNoVideoRule(g) ==
    IF Len(g.validUrls) = 0
    THEN IgThrow(g, "No valid, accessible media URLs found")
    ELSE IgBranch(g)

\* The checks that follow the HEAD loop, and the second HEAD request that a
\* single video gets.
IgKindChecks(g) ==
    LET nVideo == Cardinality({k \in DOMAIN g.validUrls : g.validUrls[k].type = "video"})
        nImage == Cardinality({k \in DOMAIN g.validUrls : g.validUrls[k].type = "image"})
    IN IF Len(g.validUrls) = 0
       THEN IgThrow(g, "No valid, accessible media URLs found")
       ELSE IF nVideo > 0 /\ nImage > 0
       THEN IgThrow(g, "Instagram does not support mixing images and videos in the same post")
       ELSE IF nVideo > 1
       THEN IgThrow(g, "Instagram supports only 1 video per post")
       ELSE IF nVideo = 1
       THEN [g EXCEPT !.pc = "videoHead", !.headCalls = g.headCalls + 1]
       ELSE IgBranch(g)

\* The HEAD request for mediaUrls[g.next] settled: an image, a video, or
\* neither (another content type, or the request failed).
IgAfterHead(g, kind) ==
    LET g1 == IF kind = "bad" THEN g
              ELSE [g EXCEPT !.validUrls = Append(g.validUrls,
                                                 [url |-> g.next, type |-> kind])]
    IN IF g.next < g.n
       THEN [g1 EXCEPT !.next = g.next + 1, !.headCalls = g.headCalls + 1]
       ELSE IgKindChecks(g1)

\* The second HEAD request for the video settled: its outcome is only logged.
IgAfterVideoHead(g) == IgBranch(g)

\* After the loop over the images: no container id is a failure, else the
\* carousel container is asked for with the ids obtained.
IgAfterChildren(g) ==
    IF Len(g.containerIds) = 0
    THEN IgThrow(g, "Failed to create any Instagram media containers")
    ELSE [g EXCEPT !.pc = "parent", !.carouselCalls = g.carouselCalls + 1,
                   !.children = g.containerIds]

\* A loop that keeps an id for every image, answered or not.
IgAfterChildKeepsAll(g, r) ==
    LET g1 == [g EXCEPT !.containerIds = Append(g.containerIds, g.validUrls[g.next].url)]
    IN IF g.next < Len(g.validUrls)
       THEN [g1 EXCEPT !.next = g.next + 1,
                       !.childCalls = Append(g.childCalls, g.validUrls[g.next + 1].url)]
       ELSE IgAfterChildren(g1)

\* The container call for image validUrls[g.next] settled: its id is kept
\* when the response has one; a failure is logged and the loop goes on.
IgAfterChild(g, r) ==
    LET g1 == IF r = "id"
              THEN [g EXCEPT !.containerIds = Append(g.containerIds, g.validUrls[g.next].url)]
              ELSE g
    IN IF g.next < Len(g.validUrls)
       THEN [g1 EXCEPT !.next = g.next + 1,
                       !.childCalls = Append(g.childCalls, g.validUrls[g.next + 1].url)]
       ELSE IgAfterChildren(g1)

\* The call for the carousel container settled.
IgAfterParent(g, r) ==
    IF r = "id" THEN [g EXCEPT !.pc = "publish", !.carouselId = TRUE,
                               !.published = "carousel"]
    ELSE IgThrow(g, "Failed to create Instagram carousel container")

\* The media_publish call settled.
IgAfterPublish(g, resp) ==
    LET r == InstagramResult(resp)
    IN IF r.ok THEN [g EXCEPT !.pc = "returned"]
       ELSE IgThrow(g, r.error)

InitInstagram ==
    /\ MultiIdle
    /\ SingleIdle
    /\ LinkedInIdle
    /\ OthersIdle
    /\ ig \in {IgStart(c, n) : c \in BOOLEAN, n \in 0..MaxMedia}

IgStep(g2) ==
    /\ ig' = g2
    /\ UNCHANGED <<multiVars, singleVars, mb, ss, pk, rt, li, tw, fb, cl, er>>

IgHead ==
    /\ ig.pc = "head"
    /\ \E kind \in {"image", "video", "bad"} : IgStep(IgAfterHead(ig, kind))

IgVideoHead ==
    /\ ig.pc = "videoHead"
    /\ IgStep(IgAfterVideoHead(ig))

IgContainer ==
    /\ ig.pc = "container"
    /\ \E r \in {"id", "empty", "httpError"} : IgStep(IgAfterContainer(ig, r))

IgStatus ==
    /\ ig.pc = "status"
    /\ \E out \in StatusOutcomes : IgStep(IgAfterStatus(ig, out))

IgChild ==
    /\ ig.pc = "child"
    /\ \E r \in {"id", "empty", "httpError"} :
          IgStep([IgAfterChild(ig, r) EXCEPT !.childResults = Append(ig.childResults, r)])

IgParent ==
    /\ ig.pc = "parent"
    /\ \E r \in {"id", "empty", "httpError"} : IgStep(IgAfterParent(ig, r))

IgPublish ==
    /\ ig.pc = "publish"
    /\ \E resp \in PublishResponses : IgStep(IgAfterPublish(ig, resp))

NextInstagram ==
    \/ IgHead
    \/ IgVideoHead
    \/ IgContainer
    \/ IgStatus
    \/ IgChild
    \/ IgParent
    \/ IgPublish

SpecInstagram == InitInstagram /\ [][NextInstagram]_vars

\* Every awaited call settles: each carries a timeout.
FairInstagram == SpecInstagram /\ WF_vars(NextInstagram)

(***************************************************************************)
(* postToLinkedIn, call by call. The items are the image files, the video  *)
(* files and the media URLs in the order the adapter takes them; the asset *)
(* registered for item k is k. reg, xfer and answer keep what the register *)
(* call, the byte transfer and the publish call were answered.             *)
(***************************************************************************)

\* imageFiles.length + videoFiles.length + mediaUrls.length in the
\* invocations followed call by call.
MaxItems == 3

\* An uploaded file (its buffer empty or not), or a media URL that the
\* extension test of line 354 takes for a video or not.
ItemKinds ==
    { [src |-> "imageFile", video |-> FALSE, empty |-> e] : e \in BOOLEAN }
    \cup { [src |-> "videoFile", video |-> TRUE, empty |-> e] : e \in BOOLEAN }
    \cup { [src |-> "url", video |-> v, empty |-> FALSE] : v \in BOOLEAN }

SrcRank(src) == CASE src = "imageFile" -> 1 [] src = "videoFile" -> 2 [] OTHER -> 3

\* The three loops take imageFiles, then videoFiles, then mediaUrls.
ItemLists ==
    { l \in SeqsUpTo(ItemKinds, MaxItems) :
        \A j, k \in DOMAIN l : j < k => SrcRank(l[j].src) <= SrcRank(l[k].src) }

RegisterOutcomes == {"ok", "noMechanism", "noUrl", "httpError"}

TransferOutcomes == {"201", "other2xx", "httpError"}

LiThrow(l, msg) == [l EXCEPT !.pc = "threw", !.error = msg]

\* shareMediaCategory of the payload.
ShareMediaCategory(l) ==
    IF Len(l.mediaAssets) > 0
    THEN IF \E k \in DOMAIN l.items : l.items[k].video THEN "VIDEO" ELSE "IMAGE"
    ELSE "NONE"

\* After the three loops: the payload is built and the ugcPosts call made.
LiPublishCall(l) ==
    [l EXCEPT !.pc = "publish", !.published = TRUE,
              !.category = ShareMediaCategory(l), !.media = l.mediaAssets]

\* The loops from item l.next on, up to the next await: a URL is fetched,
\* a file with a buffer is registered, a file with an empty buffer raises
\* in uploadLinkedInMedia and is skipped by the loop's catch.
RECURSIVE LiAdvance(_)
LiAdvance(l) ==
    IF l.next > Len(l.items) THEN LiPublishCall(l)
    ELSE LET it == l.items[l.next]
         IN IF it.src = "url"
            THEN [l EXCEPT !.pc = "fetch", !.fetchCalls = Append(l.fetchCalls, l.next)]
            ELSE IF it.empty
            THEN LiAdvance([l EXCEPT !.next = l.next + 1])
            ELSE [l EXCEPT !.pc = "register",
                           !.registerCalls = Append(l.registerCalls, l.next)]

\* A loop whose catch ends the adapter.
LiSkipAborts(l) == LiThrow(l, "LinkedIn upload failed")

\* The catch of a loop: the failure is logged and the loop goes on.
LiSkip(l) == LiAdvance([l EXCEPT !.next = l.next + 1])

\* `mediaAssets.push(asset)` and the loop goes on.
LiPush(l) ==
    LiAdvance([l EXCEPT !.mediaAssets = Append(l.mediaAssets, l.next),
                        !.next = l.next + 1])

\* postToLinkedIn({content, imageFiles, videoFiles, mediaUrls}) up to its
\* first await.
LiStart(hasContent, items) ==
    LET l == [pc |-> "start", hasContent |-> hasContent, items |-> items, next |-> 1,
              fetchCalls |-> <<>>, registerCalls |-> <<>>, transferCalls |-> <<>>,
              reg |-> [k \in DOMAIN items |-> "none"],
              xfer |-> [k \in DOMAIN items |-> "none"],
              mediaAssets |-> <<>>, published |-> FALSE, category |-> "unset",
              media |-> <<>>, answer |-> "none", error |-> Absent]
    IN IF NothingToPost(hasContent, Len(items))
       THEN LiThrow(l, "Either content or media are required for LinkedIn posts")
       ELSE LiAdvance(l)

\* uploadLinkedInMedia: the fetch of the URL settled.
LiAfterFetch(l, out) ==
    IF out = "ok"
    THEN [l EXCEPT !.pc = "register", !.registerCalls = Append(l.registerCalls, l.next)]
    ELSE LiSkip(l)

\* A registration that only has to be answered.
RegisterOkNoCheck(out) == out # "httpError"

\* uploadLinkedInMedia goes on to the byte transfer when registerUpload
\* answered with the upload mechanism and its uploadUrl: without the
\* mechanism it throws, without the uploadUrl `uploadUrl.substring` raises.
RegisterOk(out) == out = "ok"

\* uploadLinkedInMedia: the registerUpload call settled.
LiAfterRegister(l, out) ==
    IF RegisterOk(out)
    THEN [l EXCEPT !.pc = "transfer", !.transferCalls = Append(l.transferCalls, l.next)]
    ELSE LiSkip(l)

\* uploadLinkedInMedia: the PUT of the bytes settled; it returns the asset
\* for status 200 or 201.
LiAfterTransfer(l, out) ==
    IF out = "201" THEN LiPush(l) ELSE LiSkip(l)

\* The ugcPosts call settled.
LiAfterPublish(l, resp) ==
    LET r == LinkedInResult(resp)
    IN IF r.ok THEN [l EXCEPT !.pc = "returned"]
       ELSE LiThrow(l, r.error)

InitLinkedIn ==
    /\ MultiIdle
    /\ SingleIdle
    /\ InstagramIdle
    /\ OthersIdle
    /\ li \in {LiStart(c, items) : c \in BOOLEAN, items \in ItemLists}

LiStep(l2) ==
    /\ li' = l2
    /\ UNCHANGED <<multiVars, singleVars, mb, ss, pk, rt, ig, tw, fb, cl, er>>

LiFetch ==
    /\ li.pc = "fetch"
    /\ \E out \in {"ok", "empty", "failed"} : LiStep(LiAfterFetch(li, out))

LiRegister ==
    /\ li.pc = "register"
    /\ \E out \in RegisterOutcomes :
          LiStep([LiAfterRegister(li, out) EXCEPT !.reg[li.next] = out])

LiTransfer ==
    /\ li.pc = "transfer"
    /\ \E out \in TransferOutcomes :
          LiStep([LiAfterTransfer(li, out) EXCEPT !.xfer[li.next] = out])

LiPublish ==
    /\ li.pc = "publish"
    /\ \E resp \in PublishResponses :
          LiStep([LiAfterPublish(li, resp) EXCEPT !.answer = resp])

NextLinkedIn ==
    \/ LiFetch
    \/ LiRegister
    \/ LiTransfer
    \/ LiPublish

SpecLinkedIn == InitLinkedIn /\ [][NextLinkedIn]_vars

(***************************************************************************)
(* postToTwitter, call by call. A media id is named by the item it was     *)
(* made from: <<"imageFile", i>>, <<"videoFile", i>> or <<"url", i>>, with  *)
(* i counted from 0 as the loops count. urls[i + 1] tells whether the      *)
(* extension test of line 540 takes mediaUrls[i] for a video. attempted    *)
(* and outcomes keep the calls of uploadTwitterMedia and their results.    *)
(***************************************************************************)

\* imageFiles.length, videoFiles.length and mediaUrls.length in the
\* invocations followed call by call.
MaxImageFiles == 5
MaxVideoFiles == 2
MaxUrls == 3

\* `const maxMedia = 4; // Twitter limit`
maxMedia == 4

TwThrow(t, msg, status) == [t EXCEPT !.pc = "threw", !.error = msg, !.status = status]

\* The item's kind as the adapter takes it: the isVideo argument of
\* uploadTwitterMedia.
TwIsVideo(t, item) ==
    item[1] = "videoFile" \/ (item[1] = "url" /\ t.urls[item[2] + 1])

\* The bound of the image loop, evaluated before every iteration:
\* `i < Math.min(imageFiles.length, maxMedia - processedCount)`.
ImageLoopBound(t) == Min(t.nI, maxMedia - t.processedCount)

\* Slots that are never counted.
RemainingSlotsNoLimit(t) == Len(t.urls)

\* `const remainingSlots = maxMedia - processedCount`, once, before the
\* URL loop.
RemainingSlots(t) == maxMedia - t.processedCount

\* The payload is built and the tweet call made: `media` is set only for a
\* non-empty mediaIds.
TwTweetCall(t) ==
    [t EXCEPT !.pc = "tweet", !.tweets = t.tweets + 1,
              !.payload = [hasMedia |-> Len(t.mediaIds) > 0, media_ids |-> t.mediaIds]]

\* The three loops from the position (loop, i) on, up to the next await: a
\* call of uploadTwitterMedia, or the tweet call.
RECURSIVE TwAdvance(_)
TwAdvance(t) ==
    CASE t.loop = "images" ->
            IF t.i < ImageLoopBound(t)
            THEN [t EXCEPT !.pc = "upload",
                           !.attempted = Append(t.attempted, <<"imageFile", t.i>>)]
            ELSE TwAdvance([t EXCEPT !.loop = "video", !.i = 0])
      [] t.loop = "video" ->
            IF t.i < Min(t.nV, 1)
            THEN IF t.processedCount = 0
                 THEN [t EXCEPT !.pc = "upload",
                                !.attempted = Append(t.attempted, <<"videoFile", t.i>>)]
                 ELSE TwAdvance([t EXCEPT !.i = t.i + 1])
            ELSE TwAdvance([t EXCEPT !.loop = "urls", !.i = 0,
                                     !.remainingSlots = RemainingSlots(t)])
      [] OTHER ->
            IF t.i < Min(Len(t.urls), t.remainingSlots)
            THEN IF t.urls[t.i + 1] /\ Len(t.mediaIds) > 0
                 THEN TwAdvance([t EXCEPT !.i = t.i + 1])
                 ELSE [t EXCEPT !.pc = "upload",
                                !.attempted = Append(t.attempted, <<"url", t.i>>)]
            ELSE TwTweetCall(t)

\* A loop whose catch ends the adapter.
TwSkipAborts(t) == TwThrow(t, "Twitter upload failed", 500)

\* The catch of a loop: the failure is logged and the loop goes on.
TwSkip(t) == TwAdvance([t EXCEPT !.i = t.i + 1])

\* postToTwitter({content, imageFiles, videoFiles, mediaUrls}) up to its
\* first await; the routes hand it an access token.
TwStart(hasContent, nI, nV, urls) ==
    LET t == [pc |-> "start", hasContent |-> hasContent, nI |-> nI, nV |-> nV,
              urls |-> urls, loop |-> "images", i |-> 0, processedCount |-> 0,
              remainingSlots |-> 0, mediaIds |-> <<>>, attempted |-> <<>>,
              outcomes |-> <<>>, uploadPosts |-> 0, tweets |-> 0,
              payload |-> [hasMedia |-> FALSE, media_ids |-> <<>>],
              answer |-> "none", error |-> Absent, status |-> 0]
    IN IF NothingToPost(hasContent, nI + nV + Len(urls))
       THEN TwThrow(t, "Content or media required", 400)
       ELSE TwAdvance(t)

\* What a call of uploadTwitterMedia can come to: the upload answered with
\* a media_id_string, the upload failed or answered without one, or (for a
\* URL) the download of the media failed before any upload.
UploadOutcomes(item) ==
    IF item[1] = "url" THEN {"id", "failed", "fetchFailed"} ELSE {"id", "failed"}

\* The awaited uploadTwitterMedia settled. A success pushes the media id;
\* the file loops count it in processedCount, the URL loop does not. The
\* video loop and the URL loop `break` after a video.
TwAfterUpload(t, out) ==
    LET item == t.attempted[Len(t.attempted)]
        t1 == [t EXCEPT !.uploadPosts = IF out = "fetchFailed" THEN @ ELSE @ + 1]
        t2 == [t1 EXCEPT !.mediaIds = Append(t.mediaIds, item),
                         !.processedCount = IF t.loop = "urls" THEN @ ELSE @ + 1]
    IN IF out # "id" THEN TwSkip(t1)
       ELSE IF t.loop = "video"
            THEN TwAdvance([t2 EXCEPT !.loop = "urls", !.i = 0,
                                      !.remainingSlots = RemainingSlots(t2)])
       ELSE IF t.loop = "urls" /\ TwIsVideo(t, item) THEN TwTweetCall(t2)
       ELSE TwAdvance([t2 EXCEPT !.i = t.i + 1])

\* The tweet call settled.
TwAfterTweet(t, resp) ==
    LET r == TwitterResult(resp)
    IN IF r.ok THEN [t EXCEPT !.pc = "returned"]
       ELSE TwThrow(t, r.error, r.status)

InitTwitter ==
    /\ MultiIdle
    /\ SingleIdle
    /\ InstagramIdle
    /\ LinkedInIdle
    /\ ServicesIdle
    /\ fb = [pc |-> "idle"]
    /\ cl = [pc |-> "idle"]
    /\ er = [pc |-> "idle"]
    /\ tw \in {TwStart(c, nI, nV, urls) :
                  c \in BOOLEAN, nI \in 0..MaxImageFiles, nV \in 0..MaxVideoFiles,
                  urls \in SeqsUpTo(BOOLEAN, MaxUrls)}

TwUpload ==
    /\ tw.pc = "upload"
    /\ \E out \in UploadOutcomes(tw.attempted[Len(tw.attempted)]) :
          /\ tw' = [TwAfterUpload(tw, out) EXCEPT !.outcomes = Append(tw.outcomes, out)]
          /\ UNCHANGED <<multiVars, singleVars, mb, ss, pk, rt, ig, li, fb, cl, er>>

TwTweet ==
    /\ tw.pc = "tweet"
    /\ \E resp \in PublishResponses :
          /\ tw' = [TwAfterTweet(tw, resp) EXCEPT !.answer = resp]
          /\ UNCHANGED <<multiVars, singleVars, mb, ss, pk, rt, ig, li, fb, cl, er>>

NextTwitter ==
    \/ TwUpload
    \/ TwTweet

SpecTwitter == InitTwitter /\ [][NextTwitter]_vars

(***************************************************************************)
(* postToFacebook, call by call. The images of an album are numbered as    *)
(* the two upload loops take them: the image files 1..nI, then the image   *)
(* URLs; the photo id returned for image k is k. calls keeps every request *)
(* made, answers what each was answered. The invocations followed take up *)
(* to MaxMedia image files, MaxVideoFiles video files and MaxUrls URLs.    *)
(***************************************************************************)

FbThrow(f, msg, status) == [f EXCEPT !.pc = "threw", !.error = msg, !.status = status]

\* An if-chain that sends every request with an image to the album branch.
FbBranchAlbumFirst(nI, nV, iu, vu) ==
    CASE nI + iu > 0 -> "album"
      [] nV + vu = 1 -> "videoFile"
      [] nV + vu = 0 -> "text"
      [] OTHER -> "none"

\* The branch the if-chain of lines 603-710 takes for the counts of image
\* files, video files, image URLs and video URLs; "none" when no condition
\* holds.
FbBranch(nI, nV, iu, vu) ==
    CASE nV = 1 /\ nI = 0 /\ iu = 0 /\ vu = 0 -> "videoFile"
      [] vu = 1 /\ nV = 0 /\ nI = 0 /\ iu = 0 -> "videoUrl"
      [] nI = 0 /\ nV = 0 /\ iu = 0 /\ vu = 0 -> "text"
      [] nI = 1 /\ nV = 0 /\ iu = 0 /\ vu = 0 -> "imageFile"
      [] iu = 1 /\ nI = 0 /\ nV = 0 /\ vu = 0 -> "imageUrl"
      [] nI > 1 \/ iu > 1 -> "album"
      [] OTHER -> "none"

\* The request of a branch that publishes with one call: /videos with the
\* description, /feed with the message, /photos with the caption.
FbSingleCall(branch) ==
    [to |-> CASE branch \in {"videoFile", "videoUrl"} -> "videos"
              [] branch = "text" -> "feed"
              [] OTHER -> "photos",
     published |-> TRUE, caption |-> TRUE, attached |-> <<>>]

\* The album branch from image f.next on, up to the next await: an upload
\* with published: false, or after the two loops the parent feed post when
\* photoIds is not empty, the final throw when it is.
FbAlbumAdvance(f) ==
    IF f.next <= f.nI + f.iu
    THEN [f EXCEPT !.pc = "photo",
                   !.calls = Append(f.calls, [to |-> "photos", published |-> FALSE,
                                              caption |-> FALSE, attached |-> <<f.next>>])]
    ELSE IF Len(f.photoIds) > 0
    THEN [f EXCEPT !.pc = "publish",
                   !.calls = Append(f.calls, [to |-> "feed", published |-> TRUE,
                                              caption |-> TRUE, attached |-> f.photoIds])]
    ELSE FbThrow(f, "Invalid response from Facebook API", 502)

\* postToFacebook({content, pageId, pageToken, imageFiles, videoFiles,
\* mediaUrls}) up to its first await; the routes hand it a page id and a
\* token. urls[k] tells whether the extension test takes the URL for a video.
FbStart(hasContent, nI, nV, urls) ==
    LET iu == Len(SelectSeq(urls, LAMBDA v : ~v))
        vu == Len(SelectSeq(urls, LAMBDA v : v))
        f == [pc |-> "start", hasContent |-> hasContent, nI |-> nI, nV |-> nV,
              iu |-> iu, vu |-> vu, branch |-> FbBranch(nI, nV, iu, vu), next |-> 1,
              calls |-> <<>>, answers |-> <<>>, photoIds |-> <<>>,
              error |-> Absent, status |-> 0]
    IN IF NothingToPost(hasContent, nI + nV + Len(urls))
       THEN FbThrow(f, "Content or media required", 400)
       ELSE CASE f.branch = "album" -> FbAlbumAdvance(f)
              [] f.branch = "none" -> FbThrow(f, "Invalid response from Facebook API", 502)
              [] OTHER -> [f EXCEPT !.pc = "publish",
                                    !.calls = <<FbSingleCall(f.branch)>>]

\* An unpublished upload settled: its id is pushed when the answer carries
\* one, a failure is logged, and the loop goes on.
FbAfterPhoto(f, resp) ==
    FbAlbumAdvance([f EXCEPT !.photoIds = IF resp = "id" THEN Append(@, f.next) ELSE @,
                             !.next = f.next + 1])

\* The call that publishes settled: the one call of a single branch, or the
\* parent post of an album.
FbAfterPublish(f, resp) ==
    LET r == FacebookResult(resp)
    IN IF r.ok THEN [f EXCEPT !.pc = "returned"]
       ELSE FbThrow(f, r.error, r.status)

InitFacebook ==
    /\ MultiIdle
    /\ SingleIdle
    /\ InstagramIdle
    /\ LinkedInIdle
    /\ ServicesIdle
    /\ tw = [pc |-> "idle"]
    /\ cl = [pc |-> "idle"]
    /\ er = [pc |-> "idle"]
    /\ fb \in {FbStart(c, nI, nV, urls) :
                  c \in BOOLEAN, nI \in 0..MaxMedia, nV \in 0..MaxVideoFiles,
                  urls \in SeqsUpTo(BOOLEAN, MaxUrls)}

FbPhoto ==
    /\ fb.pc = "photo"
    /\ \E resp \in {"id", "empty", "httpError"} :
          /\ fb' = [FbAfterPhoto(fb, resp) EXCEPT !.answers = Append(fb.answers, resp)]
          /\ UNCHANGED <<multiVars, singleVars, mb, ss, pk, rt, ig, li, tw, cl, er>>

FbPublish ==
    /\ fb.pc = "publish"
    /\ \E resp \in PublishResponses :
          /\ fb' = [FbAfterPublish(fb, resp) EXCEPT !.answers = Append(fb.answers, resp)]
          /\ UNCHANGED <<multiVars, singleVars, mb, ss, pk, rt, ig, li, tw, cl, er>>

NextFacebook ==
    \/ FbPhoto
    \/ FbPublish

SpecFacebook == InitFacebook /\ [][NextFacebook]_vars

(***************************************************************************)
(* convertFilesToCloudinaryUrls, upload by upload. The files are numbered  *)
(* as the two loops take them: the image files 1..nI, then the video       *)
(* files; the entry pushed for file k is [type, file |-> k]. outcomes keeps *)
(* how each upload_stream call ended.                                      *)
(***************************************************************************)

\* imageFiles.length and videoFiles.length in the invocations followed
\* upload by upload.
MaxFiles == 3

\* The two loops from file c.next on, up to the next await: the upload of
\* that file, or `return mediaUrls`.
ClAdvance(c) ==
    IF c.next <= c.nI + c.nV
    THEN [c EXCEPT !.pc = "upload", !.attempted = Append(c.attempted, c.next)]
    ELSE [c EXCEPT !.pc = "returned"]

\* A loop without its try/catch: the rejection leaves the function.
ClAfterUploadRejects(c, ok) ==
    IF ok
    THEN ClAdvance([c EXCEPT !.next = c.next + 1,
                            !.mediaUrls =
                                Append(c.mediaUrls,
                                       [type |-> IF c.next <= c.nI THEN "image" ELSE "video",
                                        file |-> c.next])])
    ELSE [c EXCEPT !.pc = "threw"]

\* The awaited upload settled: the callback resolved with the result and
\* the entry is pushed with the loop's type, or it rejected and the catch
\* logs the failure; the loop goes on either way.
ClAfterUpload(c, ok) ==
    ClAdvance([c EXCEPT !.next = c.next + 1,
                        !.mediaUrls =
                            IF ok
                            THEN Append(c.mediaUrls,
                                        [type |-> IF c.next <= c.nI THEN "image" ELSE "video",
                                         file |-> c.next])
                            ELSE c.mediaUrls])

InitCloudinary ==
    /\ MultiIdle
    /\ SingleIdle
    /\ InstagramIdle
    /\ LinkedInIdle
    /\ ServicesIdle
    /\ tw = [pc |-> "idle"]
    /\ fb = [pc |-> "idle"]
    /\ er = [pc |-> "idle"]
    /\ cl \in {ClAdvance([pc |-> "start", nI |-> nI, nV |-> nV, next |-> 1,
                          attempted |-> <<>>, outcomes |-> <<>>, mediaUrls |-> <<>>]) :
                  nI \in 0..MaxFiles, nV \in 0..MaxFiles}

ClUpload ==
    /\ cl.pc = "upload"
    /\ \E ok \in BOOLEAN :
          /\ cl' = [ClAfterUpload(cl, ok) EXCEPT !.outcomes = Append(cl.outcomes, ok)]
          /\ UNCHANGED <<multiVars, singleVars, mb, ss, pk, rt, ig, li, tw, fb, er>>

SpecCloudinary == InitCloudinary /\ [][ClUpload]_vars

(***************************************************************************)
(* A failure of an adapter's final publish call on its way to the caller:  *)
(* the adapter's catch block, then the catch of the single-destination     *)
(* route or of the POST /multi callback. A message is the sequence of its  *)
(* parts; the text of an upstream body is taken as one part that does not  *)
(* state the Retry-After value.                                            *)
(***************************************************************************)

\* What the final publish call can come to short of a post id: a response
\* without a post id, no response at all, or an error response with its
\* status, with or without an error text where the adapter's catch looks
\* for one (a text that matches /rate limit/i or not), with or without a
\* Retry-After header.
RawFailures ==
    { [kind |-> k, status |-> 0, body |-> "none", retryAfter |-> "none"] :
          k \in {"noPostId", "noResponse"} }
    \cup { [kind |-> "http", status |-> s, body |-> b, retryAfter |-> r] :
              s \in {400, 401, 403, 429, 500},
              b \in {"none", "error text", "Rate limit exceeded"},
              r \in {"none", "30"} }

\* The name the adapters' messages use for a destination.
Display(a) ==
    CASE a = "twitter" -> "Twitter" [] a = "facebook" -> "Facebook"
      [] a = "linkedin" -> "LinkedIn" [] OTHER -> "Instagram"

\* The catch block of adapter a for the failure e: the status, the
\* retryAfter and the message of the httpError it throws, and the rule that
\* chose the message. postToTwitter and postToFacebook throw the response
\* without a post id as httpError(..., 502) and read e.status; postToLinkedIn
\* and postToInstagram throw it as a plain Error and read only
\* e.response?.status.
AdapterCatch(a, e) ==
    LET status == CASE e.kind = "http" -> e.status
                    [] e.kind = "noPostId" /\ a \in {"twitter", "facebook"} -> 502
                    [] OTHER -> 500
        hasText == e.body # "none"
        rule ==
            CASE a \in {"twitter", "facebook"} ->
                    IF status = 429 /\ e.body # "Rate limit exceeded" THEN "rateLimit"
                    ELSE IF hasText THEN "body" ELSE "thrown"
              [] a = "linkedin" ->
                    CASE e.kind = "http" /\ e.status = 401 -> "auth"
                      [] e.kind = "http" /\ e.status = 403 -> "permission"
                      [] e.kind = "http" /\ e.status = 429 -> "rateLimit"
                      [] OTHER -> IF hasText THEN "body" ELSE "thrown"
              [] OTHER ->
                    CASE hasText -> "body"
                      [] e.kind = "http" /\ e.status = 400 -> "badRequest"
                      [] e.kind = "http" /\ e.status = 403 -> "permission"
                      [] e.kind = "http" /\ e.status = 429 -> "rateLimit"
                      [] OTHER -> "thrown"
        message ==
            CASE rule = "body" -> <<e.body>>
              [] rule = "rateLimit" ->
                    <<Display(a), "rate limit exceeded. Please try again later.">>
              [] rule = "auth" ->
                    <<Display(a), "authentication failed. Please reconnect your account.">>
              [] rule = "permission" -> <<"Permission denied.">>
              [] rule = "badRequest" -> <<"Bad request.">>
              [] e.kind = "noPostId" /\ a = "instagram" ->
                    <<"Failed to publish Instagram post: Unknown error">>
              [] e.kind = "noPostId" -> <<"Invalid response from", Display(a), "API">>
              [] e.kind = "noResponse" -> <<"timeout exceeded">>
              [] OTHER -> <<"Request failed with status code", ToString(e.status)>>
    IN [status |-> status, retryAfter |-> e.retryAfter, rule |-> rule, message |-> message]

\* The catch of a single-destination route: the error's status, the
\* Retry-After header when the error carries a retryAfter, and the body
\* { success: false, platform, error: error.message }.
SingleRouteCatch(a, err) ==
    [via |-> "single", platform |-> Display(a), status |-> err.status,
     header |-> err.retryAfter, success |-> FALSE, error |-> err.message]

\* The catch of the POST /multi callback:
\* { platform, success: false, error: err.message }.
MultiCatch(a, err) ==
    [via |-> "multi", platform |-> a, status |-> 200,
     header |-> "none", success |-> FALSE, error |-> err.message]

InitErrors ==
    /\ MultiIdle
    /\ SingleIdle
    /\ InstagramIdle
    /\ LinkedInIdle
    /\ ServicesIdle
    /\ tw = [pc |-> "idle"]
    /\ fb = [pc |-> "idle"]
    /\ cl = [pc |-> "idle"]
    /\ er \in { [pc |-> "publish", adapter |-> a, raw |-> e,
                 thrown |-> [status |-> 0, retryAfter |-> "none", rule |-> "none",
                             message |-> <<>>],
                 result |-> [via |-> "none", platform |-> a, status |-> 0,
                             header |-> "none", success |-> FALSE, error |-> <<>>]] :
                  a \in Known, e \in RawFailures }

\* The adapter's catch ran and threw its httpError.
ErAdapter ==
    /\ er.pc = "publish"
    /\ er' = [er EXCEPT !.pc = "thrown", !.thrown = AdapterCatch(er.adapter, er.raw)]
    /\ UNCHANGED <<multiVars, singleVars, mb, ss, pk, rt, ig, li, tw, fb, cl>>

\* The adapter was called by its single-destination route.
ErSingle ==
    /\ er.pc = "thrown"
    /\ er' = [er EXCEPT !.pc = "answered",
                        !.result = SingleRouteCatch(er.adapter, er.thrown)]
    /\ UNCHANGED <<multiVars, singleVars, mb, ss, pk, rt, ig, li, tw, fb, cl>>

\* The adapter was called by a callback of POST /multi.
ErMulti ==
    /\ er.pc = "thrown"
    /\ er' = [er EXCEPT !.pc = "answered", !.result = MultiCatch(er.adapter, er.thrown)]
    /\ UNCHANGED <<multiVars, singleVars, mb, ss, pk, rt, ig, li, tw, fb, cl>>

NextErrors ==
    \/ ErAdapter
    \/ ErSingle
    \/ ErMulti

SpecErrors == InitErrors /\ [][NextErrors]_vars

(***************************************************************************)
(* One accepted request from its media to the final publish call, by       *)
(* counts: the files multer let through, the media URLs of the body (taken *)
(* as image URLs), what the route hands to the adapter, and the number of  *)
(* media references the adapter puts on its publish call.                  *)
(***************************************************************************)

\* uploadFields: { name: 'images', maxCount: 10 }, { name: 'videos', maxCount: 5 }
maxCountImages == 10
maxCountVideos == 5

\* The most media URLs in the body of a request.
MaxBodyUrls == 2

\* GET /capabilities: platforms.<p>.maxMedia
CapabilitiesMaxMedia(p) ==
    CASE p = "twitter" -> 4
      [] p = "facebook" -> 10
      [] p = "instagram" -> 10
      [] OTHER -> 9

NoMedia == [imageFiles |-> 0, videoFiles |-> 0, imageUrls |-> 0, videoUrls |-> 0]

\* The route answered 400 and called no adapter.
NotHanded == [imageFiles |-> -1, videoFiles |-> -1, imageUrls |-> -1, videoUrls |-> -1]

\* Whether the route calls convertFilesToCloudinaryUrls: the single routes
\* when files were uploaded, POST /multi for Instagram only.
CallsCloudinary(route, p, nI, nV) ==
    /\ nI + nV > 0
    /\ route = "single" \/ p = "instagram"

\* What the route hands to the adapter, or NotHanded for the 400 of the
\* Instagram route: nI image files, nV video files and nU media URLs came
\* with the request, cI and cV of the files have a Cloudinary URL.
MediaHanded(route, p, nI, nV, nU, cI, cV) ==
    IF route = "single"
    THEN IF p = "instagram"
         THEN IF cI + cV + nU = 0 \/ cI + cV + nU > 10
              THEN NotHanded
              ELSE [NoMedia EXCEPT !.imageUrls = cI + nU, !.videoUrls = cV]
         ELSE [imageFiles |-> nI, videoFiles |-> nV, imageUrls |-> cI, videoUrls |-> cV]
    ELSE CASE p = "twitter" ->
                [NoMedia EXCEPT !.imageFiles = SliceLen(nI, 4),
                                !.videoFiles = SliceLen(nV, 1),
                                !.imageUrls = SliceLen(nU, 4 - nI - nV)]
           [] p = "facebook" ->
                [NoMedia EXCEPT !.imageFiles = nI, !.videoFiles = nV, !.imageUrls = nU]
           [] p = "instagram" ->
                LET body == SliceLen(nU, 10 - (cI + cV))
                    takeI == Min(cI, 10)
                    takeV == Min(cV, 10 - takeI)
                    takeB == Min(body, 10 - takeI - takeV)
                IN [NoMedia EXCEPT !.imageUrls = takeI + takeB, !.videoUrls = takeV]
           [] OTHER ->
                [NoMedia EXCEPT !.imageFiles = SliceLen(nI, 9),
                                !.videoFiles = SliceLen(nV, 5),
                                !.imageUrls = SliceLen(nU, 9 - nI - nV)]

\* postToTwitter's loop over imageFiles from index i with processedCount p:
\* the values processedCount can have after it.
RECURSIVE TwitterImageLoop(_, _, _)
TwitterImageLoop(i, p, len) ==
    IF i < Min(len, 4 - p)
    THEN TwitterImageLoop(i + 1, p + 1, len) \cup TwitterImageLoop(i + 1, p, len)
    ELSE {p}

\* postToTwitter's loop over mediaUrls from index i with ids media ids, m
\* the loop's bound; the first nImg URLs are image URLs, the rest video URLs.
RECURSIVE TwitterUrlLoop(_, _, _, _)
TwitterUrlLoop(i, ids, m, nImg) ==
    IF i >= m THEN {ids}
    ELSE IF i < nImg
    THEN TwitterUrlLoop(i + 1, ids + 1, m, nImg) \cup TwitterUrlLoop(i + 1, ids, m, nImg)
    ELSE IF ids > 0 THEN TwitterUrlLoop(i + 1, ids, m, nImg)
    ELSE {1} \cup TwitterUrlLoop(i + 1, 0, m, nImg)

\* The numbers of media references the adapter can put on its final publish
\* call, one for each way its uploads can succeed or fail; empty when the
\* adapter throws before that call in every case.
AttachedCounts(p, hasContent, h) ==
    LET files == h.imageFiles + h.videoFiles
        urls == h.imageUrls + h.videoUrls
    IN IF ~hasContent /\ files + urls = 0 THEN {}
       ELSE CASE p = "twitter" ->
                   UNION {LET afterVideo == IF h.videoFiles > 0 /\ p1 = 0 THEN {0, 1} ELSE {p1}
                          IN UNION {TwitterUrlLoop(0, p2, Min(urls, 4 - p2), h.imageUrls) :
                                       p2 \in afterVideo} :
                             p1 \in TwitterImageLoop(0, 0, h.imageFiles)}
              [] p = "facebook" ->
                   CASE files + urls = 0 -> {0}
                     [] files + urls = 1 -> {1}
                     [] h.imageFiles > 1 \/ h.imageUrls > 1 ->
                          1..(h.imageFiles + h.imageUrls)
                     [] OTHER -> {}
              [] p = "linkedin" -> 0..(files + urls)
              [] OTHER ->
                   {n \in 1..10 :
                       \/ n = 1 /\ urls >= 1
                       \/ n > 1 /\ n <= h.imageUrls}

\* A request that multer and the validation of the route let through.
InitBudget ==
    /\ PostingIdle
    /\ ss = [pc |-> "idle"]
    /\ pk = [pc |-> "idle"]
    /\ rt = [pc |-> "idle"]
    /\ mb \in [pc : {"accepted"}, route : {"single", "multi"}, platform : Known,
               hasContent : BOOLEAN, images : 0..maxCountImages,
               videos : 0..maxCountVideos, urls : 0..MaxBodyUrls,
               handed : {NoMedia}, attached : {0}]

\* The handler from the request to the adapter's final publish call, or to
\* the failure before it.
MbPublish ==
    /\ mb.pc = "accepted"
    /\ \E cI \in 0..mb.images, cV \in 0..mb.videos :
          /\ CallsCloudinary(mb.route, mb.platform, mb.images, mb.videos)
                \/ (cI = 0 /\ cV = 0)
          /\ LET h == MediaHanded(mb.route, mb.platform, mb.images, mb.videos,
                                  mb.urls, cI, cV)
             IN IF h = NotHanded
                THEN mb' = [mb EXCEPT !.pc = "failed"]
                ELSE \/ /\ AttachedCounts(mb.platform, mb.hasContent, h) = {}
                        /\ mb' = [mb EXCEPT !.pc = "failed", !.handed = h]
                     \/ \E n \in AttachedCounts(mb.platform, mb.hasContent, h) :
                           mb' = [mb EXCEPT !.pc = "publish", !.handed = h,
                                            !.attached = n]
    /\ UNCHANGED <<multiVars, singleVars, ig, li, tw, fb, cl, er, ss, pk, rt>>

SpecBudget == InitBudget /\ [][MbPublish]_vars

(***************************************************************************)
(* utils/tokens.js (README.md, "Token Management"): the sessions map, with *)
(* one session that an OAuth callback stored, the hourly cleanup timer and *)
(* the GET /user/:sessionId requests that redeem the session. Time is      *)
(* counted in half hours.                                                  *)
(***************************************************************************)

\* const oneHour = 60 * 60 * 1000, in half hours
oneHour == 2

\* The clock stops at this age of the session.
MaxAge == 5

\* The most requests GET /user/:sessionId for the one session id.
MaxRequests == 2

NewRequest == [pc |-> "new", answer |-> "none", ageAtGet |-> -1, saved |-> FALSE]

\* removeTokens(sessionId): sessions.delete; `by` and the age are kept for
\* the entry that was there.
RemoveTokens(s, by) ==
    IF s.stored
    THEN [s EXCEPT !.stored = FALSE, !.removedBy = by, !.removedAt = s.age]
    ELSE s

\* The request answered: `res.json` or `res.status(..).json`.
SsAnswer(s, r, answer) ==
    [s EXCEPT !.reqs[r].pc = "done", !.reqs[r].answer = answer]

\* storeTokens(sessionId, {platform, ...}) was called by the OAuth callback
\* of `platform`; the timer last fired sinceCleanup half hours ago.
InitSessions ==
    /\ PostingIdle
    /\ mb = [pc |-> "idle"]
    /\ pk = [pc |-> "idle"]
    /\ rt = [pc |-> "idle"]
    /\ ss \in [pc : {"run"}, platform : {"linkedin", "instagram", "twitter"},
               accounts : 0..1, stored : {TRUE}, age : {0},
               sinceCleanup : 0..(oneHour - 1), due : {FALSE},
               removedBy : {"none"}, removedAt : {-1},
               reqs : [1..MaxRequests -> {NewRequest}]]

\* GET /user/:sessionId from getTokens to the handler's first await. The
\* Twitter handler has none, the Instagram handler has none when the session
\* holds no Instagram account: they remove the session and answer.
SsGet(r) ==
    /\ ss.pc = "run"
    /\ ss.reqs[r].pc = "new"
    /\ ss' = IF ~ss.stored
             THEN SsAnswer(ss, r, "Session not found")
             ELSE LET s1 == [ss EXCEPT !.reqs[r].ageAtGet = ss.age]
                  IN IF \/ ss.platform = "twitter"
                        \/ ss.platform = "instagram" /\ ss.accounts = 0
                     THEN SsAnswer(RemoveTokens(s1, "redeemed"), r, "tokens")
                     ELSE [s1 EXCEPT !.reqs[r].pc = "findOne"]
    /\ UNCHANGED <<multiVars, singleVars, ig, li, tw, fb, cl, er, mb, pk, rt>>

\* `await SocialMediaAccount.findOne(..)` settled: the handler goes on to
\* save the account, or its catch removes the session and answers 500.
SsFindOne(r) ==
    /\ ss.pc = "run"
    /\ ss.reqs[r].pc = "findOne"
    /\ \E ok \in BOOLEAN :
          ss' = IF ok
                THEN [ss EXCEPT !.reqs[r].pc = "save"]
                ELSE SsAnswer(RemoveTokens(ss, "redeemed"), r, "Failed to save account")
    /\ UNCHANGED <<multiVars, singleVars, ig, li, tw, fb, cl, er, mb, pk, rt>>

\* `await existingAccount.save()` or `await socialAccount.save()` settled.
SsSave(r) ==
    /\ ss.pc = "run"
    /\ ss.reqs[r].pc = "save"
    /\ \E ok \in BOOLEAN :
          ss' = IF ok
                THEN SsAnswer(RemoveTokens([ss EXCEPT !.reqs[r].saved = TRUE], "redeemed"),
                              r, "tokens")
                ELSE SsAnswer(RemoveTokens(ss, "redeemed"), r, "Failed to save account")
    /\ UNCHANGED <<multiVars, singleVars, ig, li, tw, fb, cl, er, mb, pk, rt>>

\* Half an hour passes; after one hour the timer of setInterval is due.
SsTick ==
    /\ ss.pc = "run"
    /\ ss.stored /\ ~ss.due /\ ss.age < MaxAge
    /\ ss' = [ss EXCEPT !.age = ss.age + 1,
                        !.sinceCleanup = ss.sinceCleanup + 1,
                        !.due = (ss.sinceCleanup + 1 = oneHour)]
    /\ UNCHANGED <<multiVars, singleVars, ig, li, tw, fb, cl, er, mb, pk, rt>>

\* cleanupExpiredSessions(): `if (now - data.timestamp > oneHour) delete`.
CleanupExpiredSessions(s) ==
    [(IF s.age > oneHour THEN RemoveTokens(s, "cleanup") ELSE s)
        EXCEPT !.due = FALSE, !.sinceCleanup = 0]

\* setInterval(cleanupExpiredSessions, 60 * 60 * 1000) fires.
SsCleanup ==
    /\ ss.pc = "run"
    /\ ss.due
    /\ ss' = CleanupExpiredSessions(ss)
    /\ UNCHANGED <<multiVars, singleVars, ig, li, tw, fb, cl, er, mb, pk, rt>>

NextSessions ==
    \/ \E r \in 1..MaxRequests : SsGet(r)
    \/ \E r \in 1..MaxRequests : SsFindOne(r)
    \/ \E r \in 1..MaxRequests : SsSave(r)
    \/ SsTick
    \/ SsCleanup

SpecSessions == InitSessions /\ [][NextSessions]_vars

\* The clock goes on and the timer fires when it is due.
FairSessions == SpecSessions /\ WF_vars(SsTick) /\ WF_vars(SsCleanup)

(***************************************************************************)
(* The Twitter OAuth routes: pkceStore and the two routes of the flow,      *)
(* GET / (a state is issued) and GET /callback (the state is redeemed for  *)
(* a token exchange). States are numbered from 1 as they are issued; 0 is  *)
(* a state that was never issued.                                          *)
(***************************************************************************)

\* The most states GET / issues, and the most requests to GET /callback.
MaxStates == 2
MaxCallbacks == 2

NewCallback ==
    [pc |-> "new", query |-> "none", state |-> 0, found |-> FALSE,
     requested |-> FALSE, answer |-> "none"]

\* The callback redirects to /twitter-callback.html with `answer`.
Redirect(p, c, answer) ==
    [p EXCEPT !.cbs[c].pc = "done", !.cbs[c].answer = answer]

\* The callback found the verifier of state s, with `pkceStore.delete(state)`
\* moved behind the token exchange.
VerifierFoundKeepsState(p, c, s) ==
    [p EXCEPT !.exchanges[s] = p.exchanges[s] + 1,
              !.cbs[c].pc = "token", !.cbs[c].requested = TRUE]

\* The callback found the verifier of state s: `pkceStore.delete(state)`,
\* then the token request is sent and awaited.
VerifierFound(p, c, s) ==
    [p EXCEPT !.store = p.store \ {s},
              !.exchanges[s] = p.exchanges[s] + 1,
              !.cbs[c].pc = "token", !.cbs[c].requested = TRUE]

\* The module is loaded: `const pkceStore = new Map()`.
InitPkce ==
    /\ PostingIdle
    /\ mb = [pc |-> "idle"]
    /\ ss = [pc |-> "idle"]
    /\ rt = [pc |-> "idle"]
    /\ pk = [pc |-> "run", store |-> {}, issued |-> {},
             exchanges |-> [s \in 0..MaxStates |-> 0], sessions |-> 0,
             cbs |-> [c \in 1..MaxCallbacks |-> NewCallback]]

\* GET /: `pkceStore.set(state, codeVerifier)` with a fresh state.
PkInitiate ==
    /\ pk.pc = "run"
    /\ Cardinality(pk.issued) < MaxStates
    /\ LET s == Cardinality(pk.issued) + 1
       IN pk' = [pk EXCEPT !.store = pk.store \cup {s}, !.issued = pk.issued \cup {s}]
    /\ UNCHANGED <<multiVars, singleVars, ig, li, tw, fb, cl, er, mb, ss, rt>>

\* GET /callback up to its first await: the query has an error, lacks code
\* or state, or has both, with any state the client chose.
PkCallback(c) ==
    /\ pk.pc = "run"
    /\ pk.cbs[c].pc = "new"
    /\ \E query \in {"error", "missing", "code"}, s \in 0..MaxStates :
          LET p1 == [pk EXCEPT !.cbs[c].query = query, !.cbs[c].state = s,
                               !.cbs[c].found = (s \in pk.store)]
          IN pk' = CASE query = "error" -> Redirect(p1, c, "error")
                     [] query = "missing" -> Redirect(p1, c, "missing_params")
                     [] s \notin pk.store -> Redirect(p1, c, "invalid_state")
                     [] OTHER -> VerifierFound(p1, c, s)
    /\ UNCHANGED <<multiVars, singleVars, ig, li, tw, fb, cl, er, mb, ss, rt>>

\* `await axios.post(oauthConfig.twitter.tokenUrl, ..)` settled.
PkToken(c) ==
    /\ pk.pc = "run"
    /\ pk.cbs[c].pc = "token"
    /\ \E ok \in BOOLEAN :
          pk' = IF ok THEN [pk EXCEPT !.cbs[c].pc = "user"]
                ELSE Redirect(pk, c, "token_exchange_failed")
    /\ UNCHANGED <<multiVars, singleVars, ig, li, tw, fb, cl, er, mb, ss, rt>>

\* `await axios.get(userUrl)` settled: storeTokens and the redirect with the
\* session id, or the catch.
PkUser(c) ==
    /\ pk.pc = "run"
    /\ pk.cbs[c].pc = "user"
    /\ \E ok \in BOOLEAN :
          pk' = IF ok
                THEN Redirect([pk EXCEPT !.sessions = pk.sessions + 1], c, "success")
                ELSE Redirect(pk, c, "token_exchange_failed")
    /\ UNCHANGED <<multiVars, singleVars, ig, li, tw, fb, cl, er, mb, ss, rt>>

NextPkce ==
    \/ PkInitiate
    \/ \E c \in 1..MaxCallbacks : PkCallback(c)
    \/ \E c \in 1..MaxCallbacks : PkToken(c)
    \/ \E c \in 1..MaxCallbacks : PkUser(c)

SpecPkce == InitPkce /\ [][NextPkce]_vars

(***************************************************************************)
(* apiCallWithRetry(url, options, retries = 3) of the LinkedIn routes, one *)
(* call of it, attempt by attempt. An attempt is numbered by its place in  *)
(* the call; the data and the error of an attempt carry its number.        *)
(***************************************************************************)

\* `retries = 3`, and `setTimeout(r, 2000)`
retriesDefault == 3
retryDelay == 2000

\* The largest value of retries a caller passes.
MaxRetries == 3

\* What a failed axios call can throw.
AxiosErrors == {"network", "status4xx", "status5xx"}

NoResult == [kind |-> "none", attempt |-> 0, error |-> "none"]

\* `if (retries >= 0)`: the test of the catch with its bound off by one.
MayRetryAtZero(retries) == retries >= 0

\* `if (retries > 0)`
MayRetry(retries) == retries > 0

\* The function is called with retries from the caller (or the default) and
\* sends its first request.
InitRetry ==
    /\ PostingIdle
    /\ mb = [pc |-> "idle"]
    /\ ss = [pc |-> "idle"]
    /\ pk = [pc |-> "idle"]
    /\ rt \in [pc : {"attempt"}, given : 0..MaxRetries, retries : 0..MaxRetries,
               attempts : {0}, log : {<<>>}, delays : {<<>>}, result : {NoResult}]
    /\ rt.retries = rt.given

\* `await axios({ url, ...options })` settled: the data is returned, or the
\* catch logs the error and starts the delay, or throws the error.
RtCall ==
    /\ rt.pc = "attempt"
    /\ LET k == rt.attempts + 1
       IN \/ rt' = [rt EXCEPT !.pc = "returned", !.attempts = k,
                              !.result = [kind |-> "data", attempt |-> k,
                                          error |-> "none"]]
          \/ \E e \in AxiosErrors :
                rt' = IF MayRetry(rt.retries)
                      THEN [rt EXCEPT !.pc = "delay", !.attempts = k,
                                      !.log = Append(rt.log, e)]
                      ELSE [rt EXCEPT !.pc = "threw", !.attempts = k,
                                      !.result = [kind |-> "error", attempt |-> k,
                                                  error |-> e]]
    /\ UNCHANGED <<multiVars, singleVars, ig, li, tw, fb, cl, er, mb, ss, pk>>

\* The timer of `await new Promise((r) => setTimeout(r, 2000))` fired:
\* `return apiCallWithRetry(url, options, retries - 1)` sends the next request.
RtDelay ==
    /\ rt.pc = "delay"
    /\ rt' = [rt EXCEPT !.pc = "attempt", !.retries = rt.retries - 1,
                        !.delays = Append(rt.delays, retryDelay)]
    /\ UNCHANGED <<multiVars, singleVars, ig, li, tw, fb, cl, er, mb, ss, pk>>

NextRetry == RtCall \/ RtDelay

SpecRetry == InitRetry /\ [][NextRetry]_vars

\* Every request settles and every timer fires.
FairRetry == SpecRetry /\ WF_vars(RtCall) /\ WF_vars(RtDelay)

(***************************************************************************)
(* Properties of POST /multi.                                              *)
(***************************************************************************)

Requested == req.platforms.list
Accepted == req.platforms.kind = "array" /\ req.platforms.list # <<>>
Answered == phase = "responded"
Raised(i) == tasks[i].threw # "none"

\* C1: a failure raised in one destination's callback (at the account
\* lookup, the credential check, in the adapter, at the publish call or at
\* the save) yields exactly one failed entry in that destination's slot of a
\* 200 report; every requested destination was attempted (its lookup was
\* made and its callback ran to its end), and a destination whose callback
\* raised nothing is reported successful.
C1_FailureIsolated ==
    (Answered /\ Accepted) =>
        /\ response.status = 200
        /\ Len(response.results) = Len(Requested)
        /\ lookups = Len(Requested)
        /\ \A i \in DOMAIN tasks :
              /\ tasks[i].pc = "done"
              /\ tasks[i].account # Absent
              /\ response.results[i].platform = Requested[i]
              /\ response.results[i].success = ~Raised(i)
              /\ Raised(i) => response.results[i].error # Absent

C1_Witness ==
    /\ Answered
    /\ Len(Requested) = 2
    /\ Raised(1) /\ tasks[1].threw = "publish"
    /\ ~Raised(2) /\ response.results[2].success
    /\ ~response.results[1].success

\* C2: the report of an accepted request has one entry per requested
\* platform, totalPlatforms is that number, successful counts the entries
\* with success = true, failed the entries with success = false, and the two
\* add up to the number of entries.
C2_ReportCounts ==
    (Answered /\ Accepted) =>
        LET rs == response.results
            nOk == Cardinality({i \in DOMAIN rs : rs[i].success = TRUE})
            nKo == Cardinality({i \in DOMAIN rs : rs[i].success = FALSE})
        IN /\ Len(rs) = Len(Requested)
           /\ response.totalPlatforms = Len(Requested)
           /\ response.successful = nOk
           /\ response.failed = nKo
           /\ response.successful + response.failed = Len(rs)

C2_Witness ==
    /\ Answered /\ Accepted
    /\ response.successful = 1 /\ response.failed = 1
    /\ \E i \in DOMAIN tasks : tasks[i].entry.postId = Undefined

\* C3: the i-th entry of results is the outcome of the i-th requested
\* platform's callback, whatever the order in which the callbacks finished.
C3_RequestOrder ==
    (Answered /\ Accepted) =>
        /\ Len(response.results) = Len(Requested)
        /\ \A i \in DOMAIN tasks :
              /\ response.results[i] = tasks[i].entry
              /\ response.results[i].platform = Requested[i]

C3_Witness ==
    /\ Answered /\ Accepted
    /\ order = <<2, 1>>
    /\ response.results[1].success /\ ~response.results[2].success
    /\ Requested[1] # Requested[2]

\* C4: a request whose platforms value is an empty array, is not an array
\* or does not parse is answered 400 and nothing was started for it: no
\* callback, no account lookup, no Cloudinary upload, no network call.
C4_EmptyRejected ==
    (req.platforms.kind # "array" \/ req.platforms.list = <<>>) =>
        /\ tasks = <<>>
        /\ lookups = 0
        /\ uploads = 0
        /\ lateCalls = 0
        /\ Answered => response.status = 400 /\ ~response.success

C4_Witness ==
    /\ Answered
    /\ req.platforms.kind = "array" /\ req.platforms.list = <<>>
    /\ response.status = 400

\* C5: a platform that is none of the four known ones, or for which findOne
\* found no account, ends as a failed entry in its own slot without any call
\* to the destination, and the other requested platforms are still attempted
\* and reported.
C5_UnknownPlatform ==
    \A i \in DOMAIN tasks :
        (tasks[i].pc # "lookup"
            /\ (ToLower(tasks[i].platform) \notin Known \/ tasks[i].account = "null")) =>
            /\ tasks[i].pc = "done"
            /\ ~tasks[i].entry.success
            /\ tasks[i].entry.error # Absent
            /\ ~tasks[i].called
            /\ Answered =>
                  /\ response.status = 200
                  /\ response.results[i] = tasks[i].entry
                  /\ \A j \in DOMAIN tasks :
                        tasks[j].account # Absent /\ response.results[j] = tasks[j].entry

C5_Witness ==
    /\ Answered
    /\ Len(Requested) = 2
    /\ Requested[1] = "tiktok" /\ ~response.results[1].success
    /\ tasks[2].account = "ok" /\ tasks[2].called /\ response.results[2].success

\* C6: an accepted request starts exactly one callback per requested entry
\* (each makes its one account lookup), the response is sent only when every
\* callback has finished, and no callback makes a call after the response.
C6_Barrier ==
    /\ (phase # "received" /\ Accepted) =>
          Len(tasks) = Len(Requested) /\ lookups = Len(Requested)
    /\ (Answered /\ Accepted) => \A i \in DOMAIN tasks : tasks[i].pc = "done"
    /\ lateCalls = 0

C6_Witness ==
    /\ Answered
    /\ Len(Requested) = 2
    /\ order = <<2, 1>>
    /\ tasks[1].called /\ tasks[2].called

\* C7: a destination is published to at most once per request: of two
\* entries naming the same platform, at most one gets a post published.
C7_DuplicatesCollapse ==
    \A i, j \in DOMAIN tasks :
        (i # j /\ ToLower(tasks[i].platform) = ToLower(tasks[j].platform)) =>
            ~(tasks[i].result # Absent /\ tasks[j].result # Absent)

\* C8: every settled entry is a success with a defined post id and no
\* error, or a failure with an error message and no post id.
C8_ResultShape ==
    \A i \in DOMAIN tasks :
        tasks[i].pc = "done" =>
            \/ /\ tasks[i].entry.success
               /\ tasks[i].entry.postId \notin {Absent, Undefined}
               /\ tasks[i].entry.error = Absent
            \/ /\ ~tasks[i].entry.success
               /\ tasks[i].entry.error \notin {Absent, Undefined}
               /\ tasks[i].entry.postId = Absent

\* C9: the answer to an accepted request has status 200 whenever some
\* destination succeeded; its success flag is true exactly when at least one
\* destination succeeded, and successful = 0 exactly when all failed.
C9_TransportSuccess ==
    (Answered /\ Accepted) =>
        LET nOk == Cardinality({i \in DOMAIN tasks : tasks[i].entry.success})
        IN /\ nOk >= 1 => response.status = 200
           /\ response.success = (nOk >= 1)
           /\ (response.successful = 0) = (nOk = 0)

C9_Witness ==
    /\ Answered /\ Accepted
    /\ response.status = 200 /\ response.success
    /\ response.successful = 1 /\ response.failed = 1

\* C16: an Instagram entry whose adapter is given an empty media list (the
\* request had no file and no media URL, or every Cloudinary upload failed)
\* is at once a failed entry: the adapter made no container or publish call,
\* and it is reported as failed next to whatever the other entries did.
C16_EmptyMediaFails ==
    \A i \in DOMAIN tasks :
        (ToLower(tasks[i].platform) = "instagram" /\ tasks[i].given = 0) =>
            /\ req.body.urls = 0
            /\ tasks[i].pc = "done"
            /\ ~tasks[i].entry.success
            /\ tasks[i].entry.error # Absent
            /\ tasks[i].result = Absent
            /\ ~tasks[i].called
            /\ Answered => response.results[i] = tasks[i].entry

C16_Witness ==
    /\ Answered
    /\ req.body = [hasContent |-> TRUE, files |-> 0, urls |-> 0]
    /\ Requested = <<"twitter", "instagram">>
    /\ response.results[1].success
    /\ tasks[2].given = 0 /\ ~response.results[2].success

(***************************************************************************)
(* Properties of postToInstagram.                                          *)
(***************************************************************************)

IgRunning == ig.pc # "idle"
IgEnded == ig.pc \in {"returned", "threw"}
IgLoopLeft == ig.pc \in {"publish", "returned", "threw"} /\ ig.lastStatus # "none"
IgVideos == Cardinality({k \in DOMAIN ig.validUrls : ig.validUrls[k].type = "video"})
IgImages == Cardinality({k \in DOMAIN ig.validUrls : ig.validUrls[k].type = "image"})

\* The validated media hold a video next to an image, or several videos.
IgMixed == (IgVideos > 0 /\ IgImages > 0) \/ IgVideos > 1

\* C11: once a status check reported ERROR, no publish call is issued for the
\* container and the adapter does not return a success.
C11_ErrorAborts ==
    (IgRunning /\ ig.sawError) =>
        /\ ig.published = "none"
        /\ ig.pc # "returned"

C13_PollTerminates ==
    /\ [](IgRunning => ig.attempts <= maxAttempts)
    /\ <>IgEnded

C13_Witness ==
    /\ IgRunning
    /\ IgEnded
    /\ ig.attempts = maxAttempts
    /\ ig.lastStatus = "callFailed"
    /\ ig.published = "container"

IgObtained ==
    LET idx == [k \in 1..Len(ig.childResults) |-> k]
        sel == SelectSeq(idx, LAMBDA k : ig.childResults[k] = "id")
    IN [j \in 1..Len(sel) |-> ig.childCalls[sel[j]]]

\* C15: in a carousel the child calls are made one per validated image, in
\* input order; the carousel container is asked for once, after the last
\* child call, with exactly the ids obtained, in order, and never with none;
\* the publish call references the carousel container and is issued only
\* once that container has an id.
C15_Carousel ==
    IgRunning =>
        /\ \A k \in DOMAIN ig.childCalls : ig.childCalls[k] = ig.validUrls[k].url
        /\ \A j, k \in DOMAIN ig.childCalls : j < k => ig.childCalls[j] < ig.childCalls[k]
        /\ ig.carouselCalls <= 1
        /\ ig.carouselCalls = 1 =>
              /\ Len(ig.childResults) = Len(ig.validUrls)
              /\ Len(ig.childCalls) = Len(ig.validUrls)
              /\ ig.children = IgObtained
              /\ ig.children # <<>>
        /\ (ig.childCalls # <<>> /\ IgEnded /\ ig.carouselCalls = 0) => IgObtained = <<>>
        /\ ig.published = "carousel" => ig.carouselId /\ ig.carouselCalls = 1
        /\ ig.childCalls # <<>> => ig.published # "container"

C15_Witness ==
    /\ IgRunning
    /\ ig.pc = "returned"
    /\ ig.published = "carousel"
    /\ ig.childCalls = <<1, 2, 3>>
    /\ ig.children = <<1, 3>>

LiRunning == li.pc # "idle"

\* The items whose byte transfer was answered 200 or 201, in item order.
LiUploaded ==
    LET idx == [k \in 1..Len(li.items) |-> k]
    IN SelectSeq(idx, LAMBDA k : li.xfer[k] = "201")

\* C18: a failed upload does not stop the loops: the publish call is made
\* once every item was taken, whatever failed; its media list holds exactly
\* the assets of the items whose upload succeeded, in item order; and the
\* adapter returns its success object exactly when the publish call was
\* answered with a post id.
C18_PartialUpload ==
    LiRunning =>
        /\ li.published =>
              /\ li.next = Len(li.items) + 1
              /\ li.media = LiUploaded
        /\ (li.pc = "threw" /\ ~li.published) => NothingToPost(li.hasContent, Len(li.items))
        /\ li.pc = "returned" => li.published /\ li.answer = "id"
        /\ (li.published /\ li.answer = "id") => li.pc = "returned"

C18_Witness ==
    /\ LiRunning
    /\ li.pc = "returned"
    /\ Len(li.items) = 3
    /\ li.reg[2] = "ok" /\ li.xfer[2] = "httpError"
    /\ li.media = <<1, 3>>

\* C19: the byte transfer of an item is made only after its registerUpload
\* call was answered with an upload URL, and once at most; an asset is in the
\* publish call's media list only if its registration and its byte transfer
\* both succeeded; while an item's call is in flight no publish call has
\* been made, and the publish call is made only after every item was taken.
C19_RegisterThenTransfer ==
    LiRunning =>
        /\ \A j \in DOMAIN li.transferCalls :
              /\ li.reg[li.transferCalls[j]] = "ok"
              /\ \E i \in DOMAIN li.registerCalls :
                    li.registerCalls[i] = li.transferCalls[j]
              /\ \A i \in DOMAIN li.transferCalls :
                    i # j => li.transferCalls[i] # li.transferCalls[j]
        /\ \A k \in DOMAIN li.items :
              li.reg[k] \in {"noMechanism", "noUrl", "httpError"} => li.xfer[k] = "none"
        /\ li.pc = "register" => \A j \in DOMAIN li.transferCalls : li.transferCalls[j] # li.next
        /\ \A j \in DOMAIN li.mediaAssets :
              li.reg[li.mediaAssets[j]] = "ok" /\ li.xfer[li.mediaAssets[j]] = "201"
        /\ \A j \in DOMAIN li.media :
              li.reg[li.media[j]] = "ok" /\ li.xfer[li.media[j]] = "201"
        /\ li.pc \in {"fetch", "register", "transfer"} => ~li.published
        /\ li.published => li.next = Len(li.items) + 1

C19_Witness ==
    /\ LiRunning
    /\ li.published
    /\ Len(li.items) = 2
    /\ li.reg[1] = "noUrl" /\ li.xfer[1] = "none"
    /\ li.transferCalls = <<2>>
    /\ li.media = <<2>>

\* C20: the category of the publish payload is VIDEO exactly when its media
\* list holds the asset of a video, IMAGE when the list holds assets and none
\* of a video, NONE when the list is empty.
C20_CategoryFromList ==
    (LiRunning /\ li.published) =>
        li.category = IF \E j \in DOMAIN li.media : li.items[li.media[j]].video
                      THEN "VIDEO"
                      ELSE IF li.media # <<>> THEN "IMAGE" ELSE "NONE"

(***************************************************************************)
(* Properties of postToTwitter.                                            *)
(***************************************************************************)

\* The invocation passed the entry checks of lines 501-504.
TwAccepted == tw.pc # "idle" /\ ~NothingToPost(tw.hasContent, tw.nI + tw.nV + Len(tw.urls))

\* The media ids of the tweet payload that were made from a video / an image.
TwVideoIds == SelectSeq(tw.payload.media_ids, LAMBDA m : TwIsVideo(tw, m))
TwImageIds == SelectSeq(tw.payload.media_ids, LAMBDA m : ~TwIsVideo(tw, m))

C22_NeverMixed ==
    tw.tweets = 1 =>
        \/ Len(TwVideoIds) <= 1 /\ Len(TwImageIds) = 0
        \/ Len(TwVideoIds) = 0

\* C23: a failed upload never ends the adapter: once the entry checks are
\* passed the adapter always comes to its one tweet call; the payload holds
\* exactly the ids of the uploads that succeeded, in the order of the calls,
\* and no media field when none did; when every upload failed, every item
\* within the limits was tried; and the adapter returns success exactly when
\* the tweet call was answered with a data object.
C23_UploadFailureSkipped ==
    TwAccepted =>
        /\ tw.pc # "upload" => tw.tweets = 1
        /\ tw.tweets = 1 =>
              /\ tw.payload.media_ids =
                    SelectSeq(tw.attempted,
                              LAMBDA m : \E k \in DOMAIN tw.outcomes :
                                            tw.attempted[k] = m /\ tw.outcomes[k] = "id")
              /\ tw.payload.hasMedia = (\E k \in DOMAIN tw.outcomes : tw.outcomes[k] = "id")
              /\ (\A k \in DOMAIN tw.outcomes : tw.outcomes[k] # "id") =>
                    Len(tw.attempted) = Min(tw.nI, maxMedia) + Min(tw.nV, 1)
                                          + Min(Len(tw.urls), maxMedia)
        /\ tw.pc = "returned" <=> tw.answer \in {"id", "dataNoId"}
        /\ tw.pc = "threw" <=> tw.answer \in {"empty", "httpError"}

\* An upload failed, a later one succeeded and the tweet was published with
\* the id obtained.
C23_Witness ==
    /\ tw.pc = "returned"
    /\ \E j, k \in DOMAIN tw.outcomes : j < k /\ tw.outcomes[j] # "id" /\ tw.outcomes[k] = "id"
    /\ Len(tw.payload.media_ids) > 0

\* C30: with k image files (1 <= k <= 4), no other media and every upload
\* succeeding, all k files are uploaded and the tweet references k media
\* ids; and whatever else is given, each of the first four image files is
\* tried and each successful upload of one is referenced by the tweet.
C30_AllImagesUploaded ==
    tw.tweets = 1 =>
        /\ (tw.nV = 0 /\ tw.urls = <<>> /\ tw.nI \in 1..maxMedia
                /\ \A k \in DOMAIN tw.outcomes : tw.outcomes[k] = "id") =>
              /\ Len(tw.attempted) = tw.nI
              /\ Len(tw.payload.media_ids) = tw.nI
        /\ \A i \in 0..(Min(tw.nI, maxMedia) - 1) :
              /\ \E k \in DOMAIN tw.attempted : tw.attempted[k] = <<"imageFile", i>>
              /\ \A k \in DOMAIN tw.attempted :
                    (tw.attempted[k] = <<"imageFile", i>> /\ tw.outcomes[k] = "id") =>
                        \E j \in DOMAIN tw.payload.media_ids :
                            tw.payload.media_ids[j] = <<"imageFile", i>>

(***************************************************************************)
(* Properties of postToFacebook.                                           *)
(***************************************************************************)

\* The invocation passed the entry checks of lines 591-594.
FbAccepted ==
    fb.pc # "idle" /\ ~NothingToPost(fb.hasContent, fb.nI + fb.nV + fb.iu + fb.vu)

FbEnded == fb.pc \in {"returned", "threw"}

\* C24: a request that passed the entry checks with no media makes exactly
\* one call, to /feed without attached media; with exactly one image or
\* exactly one video (a file or a URL) and nothing else it makes exactly one
\* call, to /photos or /videos, published and carrying the caption, and no
\* unpublished upload; in these shapes the adapter returns success exactly
\* when that one call was answered with an id.
C24_SingleCall ==
    LET images == fb.nI + fb.iu
        videos == fb.nV + fb.vu
    IN (FbAccepted /\ images + videos <= 1) =>
          /\ Len(fb.calls) = 1
          /\ fb.calls[1].to = CASE images = 1 -> "photos"
                                [] videos = 1 -> "videos"
                                [] OTHER -> "feed"
          /\ fb.calls[1].published /\ fb.calls[1].caption /\ fb.calls[1].attached = <<>>
          /\ fb.pc = "returned" <=> fb.answers = <<"id">>
          /\ fb.pc = "threw" <=> (Len(fb.answers) = 1 /\ fb.answers[1] # "id")

\* One image and nothing else was published with the one call to /photos.
C24_Witness ==
    /\ fb.pc = "returned"
    /\ fb.nI + fb.iu = 1 /\ fb.nV + fb.vu = 0
    /\ Len(fb.calls) = 1 /\ fb.calls[1].to = "photos" /\ fb.calls[1].published

\* C25: a request with more than one image in all (image files and image
\* URLs together) uploads each image unpublished, in order, and then, all
\* uploads tried, creates exactly one parent feed post that references
\* exactly the ids the uploads returned; no parent post is made without an id.
C25_AlbumProtocol ==
    LET n == fb.nI + fb.iu
    IN (FbAccepted /\ FbEnded /\ n > 1) =>
          /\ Len(fb.calls) >= n
          /\ \A k \in 1..n :
                fb.calls[k] = [to |-> "photos", published |-> FALSE,
                               caption |-> FALSE, attached |-> <<k>>]
          /\ fb.photoIds = SelectSeq([k \in 1..n |-> k], LAMBDA k : fb.answers[k] = "id")
          /\ IF fb.photoIds = <<>> THEN Len(fb.calls) = n
             ELSE /\ Len(fb.calls) = n + 1
                  /\ fb.calls[n + 1] = [to |-> "feed", published |-> TRUE,
                                        caption |-> TRUE, attached |-> fb.photoIds]

(***************************************************************************)
(* Properties of convertFilesToCloudinaryUrls.                             *)
(***************************************************************************)

\* C26: the normalization never fails as a whole: whatever uploads fail, it
\* tries every file, images first, each once and in input order, and
\* returns exactly one entry for every file whose upload succeeded and none
\* for a file whose upload failed, in the order of the files and with the
\* type of the loop that took the file.
C26_PartialNormalization ==
    cl.pc # "idle" =>
        /\ cl.pc # "threw"
        /\ cl.attempted = [k \in 1..Len(cl.attempted) |-> k]
        /\ cl.pc = "returned" =>
              /\ Len(cl.attempted) = cl.nI + cl.nV
              /\ cl.mediaUrls =
                    SelectSeq([k \in 1..(cl.nI + cl.nV) |->
                                  [type |-> IF k <= cl.nI THEN "image" ELSE "video",
                                   file |-> k]],
                              LAMBDA e : cl.outcomes[e.file])

\* An image and a video failed, an image and a video after them succeeded,
\* and the function returned the two entries.
C26_Witness ==
    /\ cl.pc = "returned"
    /\ cl.nI >= 2 /\ cl.nV >= 2
    /\ ~cl.outcomes[1] /\ cl.outcomes[cl.nI]
    /\ ~cl.outcomes[cl.nI + 1] /\ cl.outcomes[cl.nI + cl.nV]
    /\ Len(cl.mediaUrls) = 2

(***************************************************************************)
(* Properties of the error paths.                                          *)
(***************************************************************************)

\* C27: the same failure of the final publish call (the same status, body
\* and Retry-After header, or the same response without a post id) is given
\* the same error status, the same message rule and the same retry-after by
\* the catch block of every adapter.
C27_SameClassification ==
    er.pc \in {"thrown", "answered"} =>
        \A b \in Known :
            LET other == AdapterCatch(b, er.raw)
            IN /\ other.status = er.thrown.status
               /\ other.rule = er.thrown.rule
               /\ other.retryAfter = er.thrown.retryAfter

\* C28: when the publish call failed with HTTP 429 and a Retry-After value,
\* the failed result handed to the caller, by a single-destination route or
\* as the destination's entry of a multi-destination report, carries that
\* value in its message.
C28_RetryAfterInMessage ==
    (er.pc = "answered" /\ er.raw.kind = "http" /\ er.raw.status = 429
        /\ er.raw.retryAfter # "none") =>
        /\ ~er.result.success
        /\ \E k \in DOMAIN er.result.error : er.result.error[k] = er.raw.retryAfter

(***************************************************************************)
(* Properties of the single-destination routes.                            *)
(***************************************************************************)

SAwaiting ==
    {"lookup", "cloudinary", "media", "head", "container", "poll", "child", "parent",
     "publish", "save"}

\* C10: a request to a single-destination route is answered exactly once:
\* never twice, and the handler is at an await or has ended with one
\* response sent. The response is the adapter's success object (status 200,
\* the post id the adapter returned) or a failure (success false, an error
\* message, an error status), and a failure raised at the lookup, in the
\* adapter, at the publish call or at the save is answered with a failure.
C10_SingleAnswered ==
    /\ Len(sres) <= 1
    /\ stask.pc \in SAwaiting \cup {"done"}
    /\ stask.pc \in SAwaiting => Len(sres) = 0
    /\ stask.pc = "done" =>
          /\ Len(sres) = 1
          /\ \/ /\ sres[1].success
                /\ sres[1].status = 200
                /\ sres[1].error = Absent
                /\ sres[1].postId = stask.result
                /\ stask.result # Absent
                /\ stask.threw = "none"
             \/ /\ ~sres[1].success
                /\ sres[1].error # Absent
                /\ sres[1].status >= 400
                /\ sres[1].postId = Absent
          /\ stask.threw # "none" => ~sres[1].success

C10_Witness ==
    /\ stask.pc = "done"
    /\ sreq.route = "instagram"
    /\ stask.threw = "save"
    /\ Len(sres) = 1 /\ ~sres[1].success /\ sres[1].status = 500

\* C29: a publish never writes a credential field of the stored account
\* record, and the record is written (lastUsed, with the schema's updatedAt)
\* only after the adapter returned its success object: when the handler
\* answered before calling the adapter, or the adapter or the save failed,
\* the stored record is as it was. The callback of POST /multi takes the
\* same steps (AfterPublish, AfterSave) for each destination.
C29_BookkeepingAfterSuccess ==
    stask.platform # Absent =>
        /\ stask.written \cap Credentials = {}
        /\ stask.written # {} => (stask.called /\ stask.result # Absent)
        /\ (stask.pc = "done" /\ ~sres[1].success) => stask.written = {}
        /\ (stask.pc = "done" /\ sres[1].success) =>
              stask.written = {"lastUsed", "updatedAt"}

\* The adapter returned its success object and the save wrote lastUsed.
C29_Witness ==
    /\ stask.pc = "done"
    /\ stask.result # Absent /\ sres[1].success
    /\ "lastUsed" \in stask.written

\* C31: the routes /twitter, /facebook and /linkedin present each uploaded
\* file to their adapter exactly once: the media items the adapter has to
\* attach are never more than the files of the request (the routes take no
\* media URLs from the body), and the Facebook adapter entered with one
\* uploaded image takes its single-image branch, so it fails only after a
\* call to the Graph API.
C31_FilePresentedOnce ==
    sreq.route \in {"twitter", "facebook", "linkedin"} =>
        /\ stask.pc = "media" => stask.leftFiles + stask.leftUrls <= sreq.body.files
        /\ (sreq.route = "facebook" /\ sreq.body.files = 1 /\ stask.threw = "adapter")
              => stask.called

\* C32: a destination of POST /multi whose publish call returned a post id
\* is reported with success true, also when the later save of lastUsed
\* failed.
C32_PublishedIsSuccess ==
    \A i \in DOMAIN tasks :
        (tasks[i].pc = "done" /\ tasks[i].result # Absent) => tasks[i].entry.success

\* C33: in POST /multi the outcome of one destination depends only on its
\* own inputs, credential and upstream responses. Every step of the handler
\* after the dispatch changes the record of at most one callback; the new
\* record, with its result entry, is one that CallbackNext gives from the
\* callback's own record and the request, whatever the other callbacks did;
\* and a callback that has not settled can always take its next step, in
\* whatever state the others are.
C33_Independent ==
    /\ [][\A i \in DOMAIN tasks :
            tasks'[i] # tasks[i] =>
               /\ tasks'[i] \in CallbackNext(tasks[i], req.body)
               /\ \A j \in DOMAIN tasks \ {i} : tasks'[j] = tasks[j]]_vars
    /\ [](\A i \in DOMAIN tasks :
            tasks[i].pc \notin {"done", "rejected"} => ENABLED CallbackStep(i))

\* Two destinations: the second one has been reported as published while
\* the first one is still at its account lookup.
C33_Witness ==
    /\ Len(tasks) = 2
    /\ tasks[1].pc = "lookup"
    /\ tasks[2].pc = "done" /\ tasks[2].entry.success

\* C34: for every request the single-destination routes and POST /multi
\* accept, the number of media references on the final publish call is at
\* most the maxMedia that GET /capabilities reports for the destination.
C34_WithinMaxMedia ==
    mb.pc = "publish" => mb.attached <= CapabilitiesMaxMedia(mb.platform)

\* C35: a session id is redeemed once. Of the requests GET /user/:sessionId
\* for one session id, in any interleaving, at most one gets the stored
\* tokens from getTokens and at most one saves the account; a request that
\* is not that one is answered 'Session not found'; and when a request that
\* got the tokens has answered, the session is removed, the save having
\* succeeded or failed.
C35_OneTimeUse ==
    LET got == {r \in 1..MaxRequests : ss.reqs[r].ageAtGet >= 0}
    IN ss.pc = "run" =>
          /\ Cardinality(got) <= 1
          /\ Cardinality({r \in 1..MaxRequests : ss.reqs[r].saved}) <= 1
          /\ \A r \in 1..MaxRequests :
                ss.reqs[r].pc = "done" =>
                   IF r \in got THEN ~ss.stored
                   ELSE ss.reqs[r].answer = "Session not found"

\* C36: the session store keeps a session for one hour. Every stored
\* session is removed in the end, by the request that redeems it or by the
\* cleanup; the cleanup removes no session of an age of one hour or less;
\* and getTokens returns no session older than one hour.
C36_ExpiryContract ==
    /\ (ss.pc = "run" /\ ss.stored) ~> (~ss.stored)
    /\ [](ss.pc = "run" /\ ss.removedBy = "cleanup" => ss.removedAt > oneHour)
    /\ [](ss.pc = "run" => \A r \in 1..MaxRequests : ss.reqs[r].ageAtGet <= oneHour)

\* C37: a state of the Twitter OAuth flow is redeemed once. Every issued
\* state drives at most one token request and a state that was not issued
\* drives none; a callback whose state is not in pkceStore (never issued, or
\* consumed by an earlier callback, whatever became of that one's exchange)
\* is answered invalid_state and sends no token request; and while a
\* callback's token exchange runs, its state is no longer in pkceStore.
C37_StateRedeemedOnce ==
    pk.pc = "run" =>
       /\ \A s \in 0..MaxStates :
             pk.exchanges[s] <= (IF s \in pk.issued THEN 1 ELSE 0)
       /\ \A c \in 1..MaxCallbacks :
             /\ (pk.cbs[c].query = "code" /\ ~pk.cbs[c].found) =>
                   (pk.cbs[c].answer = "invalid_state" /\ ~pk.cbs[c].requested)
             /\ pk.cbs[c].requested => pk.cbs[c].state \notin pk.store

\* The exchange of a state failed, and a second callback with the same state
\* was answered invalid_state without a token request.
C37_Witness ==
    /\ pk.pc = "run"
    /\ \E c, d \in 1..MaxCallbacks :
          /\ pk.cbs[c].answer = "token_exchange_failed"
          /\ pk.cbs[d].state = pk.cbs[c].state /\ pk.cbs[d].query = "code"
          /\ pk.cbs[d].answer = "invalid_state"
          /\ pk.exchanges[pk.cbs[c].state] = 1

\* C38: apiCallWithRetry is a bounded retry policy. It makes at most
\* retries + 1 attempts; it returns the data of the first attempt that
\* succeeds and makes no attempt after it; it waits the same delay before
\* every attempt but the first; when every attempt failed it throws the
\* error of the last one; and it ends, returning or throwing.
C38_BoundedRetry ==
    /\ [](rt.pc # "idle" =>
            /\ rt.attempts <= rt.given + 1
            /\ rt.pc = "returned" =>
                  /\ rt.result = [kind |-> "data", attempt |-> rt.attempts,
                                  error |-> "none"]
                  /\ Len(rt.log) = rt.attempts - 1
            /\ rt.pc = "threw" =>
                  /\ rt.attempts = rt.given + 1
                  /\ Len(rt.log) = rt.given
                  /\ rt.result.kind = "error" /\ rt.result.attempt = rt.attempts
            /\ Len(rt.delays) = (IF rt.pc = "attempt" THEN rt.attempts
                                 ELSE rt.attempts - 1)
            /\ \A i \in DOMAIN rt.delays : rt.delays[i] = retryDelay)
    /\ <>(rt.pc \in {"returned", "threw"})

\* Called with the default, the function threw after four failed attempts
\* and three delays.
C38_Witness ==
    /\ rt.pc = "threw"
    /\ rt.given = retriesDefault
    /\ rt.attempts = 4 /\ Len(rt.delays) = 3

====
